---------------------------- MODULE Spec2Model ----------------------------
(***************************************************************************)
(* A model of the ingestion-and-aggregation pipeline of the Retail Price   *)
(* Cut Summary App: scraper.py (RateLimiter, NewsScraper), summarizer.py   *)
(* (Summarizer) and the job entry points of app.py.                        *)
(*                                                                         *)
(* The module holds several specifications over one set of variables; a    *)
(* specification drives the variables of the component it is about and     *)
(* leaves the others at their initial values:                              *)
(*   SpecDedup  NewsScraper._deduplicate_articles on every bounded input   *)
(*   SpecRL     one RateLimiter under arbitrary calls and passing time     *)
(*   SpecFetch  one NewsScraper.scrape_news call, keyword loop to RunLog   *)
(*   SpecStore  NewsScraper._save_articles called by overlapping ingests   *)
(*   SpecSumm   Summarizer.summarize_new_headlines, overlapping runs       *)
(***************************************************************************)
EXTENDS Integers, Sequences, FiniteSets, TLC

VARIABLES
    \* ---- _deduplicate_articles as a function (SpecDedup)
    dd_in,            \* the articles argument
    dd_out,           \* the returned list
    dd_pc,            \* "call" before the call, "ret" after it
    \* ---- time and the RateLimiter (SpecRL, SpecFetch)
    clock,            \* time.time(), in seconds
    requests,         \* RateLimiter.requests: domain -> list of timestamps
    issued,           \* history: every timestamp add_request recorded, per domain
    rl_check,         \* history: the last can_request call (domain, time, log before and after, result)
    \* ---- one scrape_news call (SpecFetch)
    pcF,              \* position of the call
    keywords,         \* scrape_news' keywords
    kw_idx,           \* index of the keyword of the running loop iteration
    attempt,          \* the attempt variable of _fetch_rss_feed (0-based)
    all_articles,     \* scrape_news' all_articles
    http_log,         \* history: one record per session.get issued
    sleep_log,        \* history: one record per time.sleep of the call
    \* ---- the store and _save_articles (SpecFetch, SpecStore, SpecSumm)
    headlines,        \* committed rows of table headlines
    summaries,        \* committed rows of table summaries
    processing_log,   \* committed rows of table processing_log
    db_lock,          \* the connection holding SQLite's write lock, 0 if none
    tx,               \* per connection: the rows of its open transaction
    pcS,              \* per caller: position inside scrape_news/_save_articles
    call_no,          \* per caller: number of the ingest call it is in
    articles,         \* per caller: the articles argument of _save_articles
    art_idx,          \* per caller: index of the article of the running iteration
    saved_count,      \* per caller: _save_articles' saved_count
    save_ret,         \* per caller: history of the finished calls
    faults,           \* persistence failures injected so far
    \* ---- one call of a function that only computes
    fn_arg,           \* the argument of the call
    fn_ret,           \* what the call returned
    fn_pc,            \* "off", "call" before the call, "ret" after it
    \* ---- DailyDigest.send_daily_digest (SpecDigest)
    pcD,              \* position inside send_daily_digest
    recent,           \* the list _get_recent_summaries returned
    mail_log,         \* history: the calls of EmailSender.send_email
    digest_ret,       \* what send_daily_digest returned
    \* ---- summarize_new_headlines (SpecSumm)
    pcM,              \* per caller: position inside summarize_new_headlines
    run_no,           \* per caller: number of the summarize run it is in
    sel,              \* per caller: the rows fetched by the SELECT
    sel_idx,          \* per caller: index of the headline of the running iteration
    pages,            \* the web: per link, what extract_content gets from its page
    classifier,       \* the classification model: per link, its reply for that headline
    costs,            \* per caller: the tokens its CostTracker added since it was loaded
    reported,         \* per caller: history, the tokens the responses to it reported
    summary,          \* per caller: the summary text in hand, or None
    summarized_count, \* per caller: summarized_count
    processed,        \* per caller: history, outcome per selected headline
    summ_ret,         \* per caller: history of the finished runs
    \* ---- the scheduled jobs and the refresh route of app.py (SpecJobs, SpecRefresh)
    pcJ,              \* per job: position inside the job function
    job_err,          \* per job: the exception its except clause caught, or None
    job_calls,        \* per job: history, its log_job_execution calls and whether each committed its row
    pcR,              \* position inside refresh
    API_TOKEN,        \* Config.API_TOKEN
    request,          \* the request refresh is serving: its Authorization header
    response,         \* the response refresh returned
    \* ---- the RateLimiters of the NewsScrapers the callers construct (SpecScrapers)
    limiters,         \* per caller: RateLimiter.requests of its NewsScraper
    pcL,              \* per caller: position of its scraper between limiter calls
    \* ---- the cost ledger file and the CostTrackers of the callers (SpecLedger)
    cost_file,        \* openai_costs.json: NoFile, or the ledger last written to it
    tracker,          \* per caller: CostTracker.costs of its Summarizer
    built,            \* per caller: the Summarizers it has constructed
    today,            \* the calendar date of datetime.now()
    recorded,         \* history: the tokens of every add_usage call made, all callers
    write_errors,     \* history: the add_usage calls whose save_costs raised
    \* ---- init_scheduler and the global scheduler of app.py (SpecScheduler)
    scheduler,        \* the global: 0 for None, else the index in made of the object it names
    scheduler_lock,   \* the thread holding scheduler_lock, 0 if none
    made,             \* every BackgroundScheduler constructed: its job ids, whether it runs
    pcI,              \* per thread: position inside init_scheduler
    init_calls        \* per thread: the init_scheduler calls it has made

ddVars    == <<dd_in, dd_out, dd_pc>>
fnVars    == <<fn_arg, fn_ret, fn_pc>>
pureVars  == <<ddVars, fnVars>>
digestVars == <<pcD, recent, mail_log, digest_ret>>
webVars   == <<pcR, API_TOKEN, request, response>>
limiterVars == <<limiters, pcL>>
ledgerVars == <<cost_file, tracker, built, today, recorded, write_errors>>
schedVars == <<scheduler, scheduler_lock, made, pcI, init_calls>>
sideVars  == <<limiterVars, ledgerVars, schedVars>>
appVars   == <<pcJ, job_err, job_calls, webVars, sideVars>>
rlVars    == <<clock, requests, issued, rl_check>>
fetchVars == <<pcF, keywords, kw_idx, attempt, all_articles, http_log, sleep_log>>
dbVars    == <<headlines, summaries, processing_log, db_lock, tx, faults>>
saveVars  == <<pcS, call_no, articles, art_idx, saved_count, save_ret>>
world     == <<pages, classifier>>
ledger    == <<costs, reported>>
summVars  == <<pcM, run_no, sel, sel_idx, world, ledger, summary, summarized_count, processed, summ_ret>>
vars      == <<pureVars, digestVars, appVars, rlVars, fetchVars, dbVars, saveVars, summVars>>

notStore  == <<pureVars, digestVars, appVars, rlVars, fetchVars, summVars>>

None == "None"

\* the ids of the two scheduled jobs of init_scheduler
Jobs == {"daily_digest", "scraping_summarization"}

\* a request header or an environment variable: absent (None), or its text
Absent == [present |-> FALSE, text |-> <<>>]
Text(t) == [present |-> TRUE, text |-> t]
\* bool(v) of such a value: None and the empty text are false
truthy(v) == v.present /\ v.text # <<>>

NoRequest == [received |-> FALSE, Authorization |-> Absent]
\* no response yet
Pending == [status |-> 0, summaries_created |-> 0]

(***************************************************************************)
(* Bounds of the model.                                                    *)
(***************************************************************************)
MaxArticles == 3          \* longest list handed to _deduplicate_articles
Links       == {"a", "b", "c"}
Keywords    == <<"markdown", "rollback">>

\* published dates, in seconds relative to the start of the run: one far
\* older than any hours_back window, one inside every window
OldDate     == 0 - 200000
RecentDate  == 0 - 10
PubDates    == {OldDate, RecentDate}

\* an entry as _fetch_rss_feed builds it (title and source carry no control flow)
Entry(l, d, k) == [link |-> l, published |-> d, keyword |-> k]
Entries == {Entry(l, d, Keywords[k]) : l \in Links, d \in PubDates, k \in DOMAIN Keywords}

SeqsUpTo(S, n) == UNION {[1..m -> S] : m \in 0..n}

Range(s) == {s[i] : i \in DOMAIN s}

(***************************************************************************)
(* Texts of the external model.  A text is a sequence of pieces: a piece   *)
(* is a run of characters without white space at its ends (<<"w", i>>, the *)
(* i-th word of a reply, <<"...", 0>>, or a whole label) or one            *)
(* white-space character.                                                  *)
(***************************************************************************)
Blank == <<" ", 0>>
Newline == <<"\n", 0>>
Ellipsis == <<"...", 0>>
isspace(c) == c \in {Blank, Newline}

RECURSIVE lstrip(_)
lstrip(text) ==
    IF text # <<>> /\ isspace(Head(text)) THEN lstrip(Tail(text)) ELSE text

RECURSIVE rstrip(_)
rstrip(text) ==
    IF text # <<>> /\ isspace(text[Len(text)])
    THEN rstrip(SubSeq(text, 1, Len(text) - 1))
    ELSE text

\* str.strip()
str_strip(text) == rstrip(lstrip(text))

\* the first word of a text that starts with one
RECURSIVE first_word(_)
first_word(text) ==
    IF text = <<>> \/ isspace(Head(text)) THEN <<>>
    ELSE <<Head(text)>> \o first_word(Tail(text))

\* str.split(): the maximal runs without white space, each a sequence of pieces
RECURSIVE split(_)
split(text) ==
    LET t == lstrip(text)
    IN  IF t = <<>> THEN <<>>
        ELSE <<first_word(t)>> \o split(SubSeq(t, Len(first_word(t)) + 1, Len(t)))

\* ' '.join(words)
RECURSIVE join(_)
join(words) ==
    IF words = <<>> THEN <<>>
    ELSE IF Len(words) = 1 THEN words[1]
    ELSE words[1] \o <<Blank>> \o join(Tail(words))

\* a reply of the classification model: whether create() returned, and the
\* text of its message (pieces as in a summary reply; a piece <<t, 0>> is
\* the run of characters t)
Responded(text) == [responded |-> TRUE, content |-> text]
NoResponse == [responded |-> FALSE, content |-> <<>>]
Piece(t) == <<t, 0>>

\* response.usage of one response of the external model
prompt_tokens == 2
completion_tokens == 1
\* self.costs, token totals only, with nothing added
NoTokens == [total_input_tokens |-> 0, total_output_tokens |-> 0]

(***************************************************************************)
(* NewsScraper._deduplicate_articles                                       *)
(***************************************************************************)
\* hashlib.md5(link.encode()).hexdigest(): a digest of the link, distinct
\* links of the bounded set having distinct digests
md5_hexdigest(link) == <<"md5", link>>

RECURSIVE dedup_loop(_, _, _)
dedup_loop(arts, seen, unique) ==
    IF arts = <<>> THEN unique
    ELSE LET article   == Head(arts)
             link_hash == md5_hexdigest(article.link)
         IN  IF link_hash \notin seen
             THEN dedup_loop(Tail(arts), seen \cup {link_hash}, Append(unique, article))
             ELSE dedup_loop(Tail(arts), seen, unique)

\* mutant: the hash is never added to seen
RECURSIVE dedup_loop_noseen(_, _, _)
dedup_loop_noseen(arts, seen, unique) ==
    IF arts = <<>> THEN unique
    ELSE LET article   == Head(arts)
             link_hash == md5_hexdigest(article.link)
         IN  IF link_hash \notin seen
             THEN dedup_loop_noseen(Tail(arts), seen, Append(unique, article))
             ELSE dedup_loop_noseen(Tail(arts), seen, unique)

deduplicate_articles_noseen(arts) == dedup_loop_noseen(arts, {}, <<>>)

deduplicate_articles(arts) == dedup_loop(arts, {}, <<>>)


InitDedupIdle ==
    /\ dd_in = <<>>
    /\ dd_out = <<>>
    /\ dd_pc = "off"

InitFnIdle ==
    /\ fn_arg = <<>>
    /\ fn_ret = <<>>
    /\ fn_pc = "off"

InitDigestIdle ==
    /\ pcD = "idle"
    /\ recent = <<>>
    /\ mail_log = <<>>
    /\ digest_ret = None

InitLimitersIdle ==
    /\ limiters = [p \in {1, 2} |-> [d \in {"news.google.com"} |-> <<>>]]
    /\ pcL = [p \in {1, 2} |-> "idle"]

\* the ledger file before anything was written: open() raises FileNotFoundError
NoFile == [exists |-> FALSE]
\* load_costs: the ledger a CostTracker starts from when there is no file
\* (total_cost, a float derived from the token counts, is not modelled)
EmptyCosts == [total_input_tokens |-> 0, total_output_tokens |-> 0, daily_costs |-> <<>>]

InitLedgerIdle ==
    /\ cost_file = NoFile
    /\ tracker = [p \in {1, 2} |-> EmptyCosts]
    /\ built = [p \in {1, 2} |-> 0]
    /\ today = 1
    /\ recorded = [total_input_tokens |-> 0, total_output_tokens |-> 0]
    /\ write_errors = 0

MaxThreads == 3           \* threads calling init_scheduler
MaxInitCalls == 2         \* init_scheduler calls of one thread
Threads == 1..MaxThreads

InitSchedulerIdle ==
    /\ scheduler = 0
    /\ scheduler_lock = 0
    /\ made = <<>>
    /\ pcI = [t \in Threads |-> "idle"]
    /\ init_calls = [t \in Threads |-> 0]

InitSideIdle == InitLimitersIdle /\ InitLedgerIdle /\ InitSchedulerIdle

InitAppIdle ==
    /\ pcJ = [j \in Jobs |-> "idle"]
    /\ job_err = [j \in Jobs |-> None]
    /\ job_calls = [j \in Jobs |-> <<>>]
    /\ pcR = "idle"
    /\ API_TOKEN = Absent
    /\ request = NoRequest
    /\ response = Pending
    /\ InitSideIdle

InitDedup ==
    /\ dd_in \in SeqsUpTo(Entries, MaxArticles)
    /\ dd_out = <<>>
    /\ dd_pc = "call"

\* unique_articles = self._deduplicate_articles(all_articles)
call_deduplicate_articles ==
    /\ dd_pc = "call"
    /\ dd_out' = deduplicate_articles(dd_in)
    /\ dd_pc' = "ret"
    /\ UNCHANGED dd_in
    /\ UNCHANGED <<fnVars, digestVars, appVars, rlVars, fetchVars, dbVars, saveVars, summVars>>

(***************************************************************************)
(* RateLimiter                                                             *)
(***************************************************************************)
\* Config.MAX_REQUESTS_PER_MINUTE: configured, small here
MAX_REQUESTS_PER_MINUTE == 2
WindowSeconds == 60
MaxIssued == 3            \* add_request calls of a SpecRL run, all domains
Domains == {"news.google.com", "other.example"}
\* the instants at which SpecRL samples time.time()
Instants == {0, 1, 59, 60, 61, 120}

\* mutant: an entry exactly 60 s old is kept
purge_keep_boundary(log, now) ==
    SelectSeq(log, LAMBDA t : t >= now - WindowSeconds)

\* self.requests[domain] = [t for t in self.requests[domain] if t > minute_ago]
purge(log, now) ==
    SelectSeq(log, LAMBDA t : t > now - WindowSeconds)

\* mutant: the limit itself is still allowed
under_limit_off_by_one(log) == Len(log) <= MAX_REQUESTS_PER_MINUTE

\* return len(self.requests[domain]) < self.max_requests
under_limit(log) == Len(log) < MAX_REQUESTS_PER_MINUTE

InitRLIdle ==
    /\ clock = 0
    /\ requests = [d \in Domains |-> <<>>]
    /\ issued = [d \in Domains |-> <<>>]
    /\ rl_check = [domain |-> None, at |-> 0, before |-> <<>>, after |-> <<>>,
                   history |-> <<>>, result |-> FALSE]

\* RateLimiter.can_request(domain)
can_request(d) ==
    /\ requests' = [requests EXCEPT ![d] = purge(requests[d], clock)]
    /\ rl_check' = [domain |-> d, at |-> clock, before |-> requests[d],
                    after |-> purge(requests[d], clock), history |-> issued[d],
                    result |-> under_limit(purge(requests[d], clock))]
    /\ UNCHANGED <<clock, issued>>

TotalIssued == Len(issued["news.google.com"]) + Len(issued["other.example"])

\* RateLimiter.add_request(domain)
add_request(d) ==
    /\ requests' = [requests EXCEPT ![d] = Append(requests[d], clock)]
    /\ issued' = [issued EXCEPT ![d] = Append(issued[d], clock)]
    /\ UNCHANGED <<clock, rl_check>>

\* time passes between two calls
time_passes ==
    /\ \E t \in Instants : t > clock /\ clock' = t
    /\ UNCHANGED <<requests, issued, rl_check>>

(***************************************************************************)
(* NewsScraper._filter_by_date                                             *)
(***************************************************************************)
SecondsPerHour == 3600

\* mutant: the cutoff is computed and not applied
filter_by_date_keeps_all(arts, hours_back, now) == arts

\* mutant: the comparison with the cutoff is turned round
filter_by_date_older(arts, hours_back, now) ==
    SelectSeq(arts, LAMBDA a : a.published < now - hours_back * SecondsPerHour)

\* cutoff = datetime.now() - timedelta(hours=hours_back)
\* return [a for a in articles if a['published'] >= cutoff]
filter_by_date(arts, hours_back, now) ==
    SelectSeq(arts, LAMBDA a : a.published >= now - hours_back * SecondsPerHour)

(***************************************************************************)
(* The store: tables headlines, summaries and processing_log of one SQLite *)
(* file.  Every operation opens its own connection.  A connection's first  *)
(* INSERT opens its transaction and takes the write lock, which it holds   *)
(* until it commits, rolls back or closes; other connections read the      *)
(* committed rows meanwhile and their writes wait.  A statement may fail   *)
(* with an sqlite3.Error other than IntegrityError (disk I/O, "database is *)
(* locked" once the busy timeout has run out).                             *)
(***************************************************************************)
Procs == {1, 2}           \* 1: run_scraping_and_summarization, 2: refresh
MaxFaults == 2            \* failing statements of a run
MaxCalls  == 2            \* ingest calls of a SpecStore run, both callers

\* scraper.scrape_news(hours_back=3) in the job, (hours_back=24) in refresh
hours_back(p) == IF p = 1 THEN 3 ELSE 24

\* processing_log.items_processed of a row inserted without it
DefaultItemsProcessed == 0

EmptyTx == [headlines |-> <<>>, log |-> <<>>, summaries |-> <<>>]

StoredLinks == {headlines[i].link : i \in DOMAIN headlines}
               \cup {tx.headlines[i].link : i \in DOMAIN tx.headlines}

\* mutant: the column carries no UNIQUE constraint
link_not_unique(link) == FALSE

\* headlines.link is UNIQUE: the INSERT raises sqlite3.IntegrityError
unique_link_violation(link) == link \in StoredLinks

\* mutant: the conflicting row is counted as saved
saved_count_always(count, inserted) == count + 1

\* saved_count += 1 after an INSERT that did not raise
saved_count_after(count, inserted) == IF inserted THEN count + 1 ELSE count

\* mutant: no inner try, IntegrityError reaches the outer handler
integrity_error_aborts == "rollback"

\* except sqlite3.IntegrityError: pass -- the loop goes on
integrity_error_next == "insert"

InitDBIdle ==
    /\ summaries = <<>>
    /\ processing_log = <<>>
    /\ db_lock = 0
    /\ tx = EmptyTx
    /\ faults = 0

InitSaveIdle ==
    /\ pcS = [p \in Procs |-> "idle"]
    /\ call_no = [p \in Procs |-> 0]
    /\ articles = [p \in Procs |-> <<>>]
    /\ art_idx = [p \in Procs |-> 1]
    /\ saved_count = [p \in Procs |-> 0]
    /\ save_ret = [p \in Procs |-> [call |-> 0, outcome |-> None, value |-> 0]]

\* mutant: the recency filter runs ahead of the deduplication
begin_save_filter_first(p, all) ==
    /\ articles' = [articles EXCEPT ![p] =
            deduplicate_articles(filter_by_date(all, hours_back(p), clock))]
    /\ pcS' = [pcS EXCEPT ![p] = "insert"]
    /\ art_idx' = [art_idx EXCEPT ![p] = 1]
    /\ saved_count' = [saved_count EXCEPT ![p] = 0]
    /\ call_no' = [call_no EXCEPT ![p] = @ + 1]
    /\ UNCHANGED save_ret

\* scrape_news from "unique_articles = ..." to the call of _save_articles,
\* whose first three lines open the connection and zero saved_count
begin_save(p, all) ==
    /\ articles' = [articles EXCEPT ![p] =
            filter_by_date(deduplicate_articles(all), hours_back(p), clock)]
    /\ pcS' = [pcS EXCEPT ![p] = "insert"]
    /\ art_idx' = [art_idx EXCEPT ![p] = 1]
    /\ saved_count' = [saved_count EXCEPT ![p] = 0]
    /\ call_no' = [call_no EXCEPT ![p] = @ + 1]
    /\ UNCHANGED save_ret

\* one iteration of "for article in articles": the INSERT INTO headlines
save_insert(p) ==
    /\ pcS[p] = "insert"
    /\ art_idx[p] <= Len(articles[p])
    /\ db_lock \in {0, p}
    /\ LET a == articles[p][art_idx[p]]
           conflict == unique_link_violation(a.link)
           row == [link |-> a.link, published |-> a.published, by |-> <<p, call_no[p]>>]
       IN  /\ tx' = IF conflict THEN tx
                    ELSE [tx EXCEPT !.headlines = Append(@, row)]
           /\ saved_count' = [saved_count EXCEPT ![p] = saved_count_after(@, ~conflict)]
           /\ pcS' = [pcS EXCEPT ![p] = IF conflict THEN integrity_error_next ELSE "insert"]
    /\ db_lock' = p
    /\ art_idx' = [art_idx EXCEPT ![p] = @ + 1]
    /\ UNCHANGED <<headlines, summaries, processing_log, faults, call_no, articles, save_ret>>
    /\ UNCHANGED notStore

\* conn.commit() of the connection holding the lock (a no-op without a transaction)
Commit(p) ==
    IF db_lock = p
    THEN /\ headlines' = headlines \o tx.headlines
         /\ summaries' = summaries \o tx.summaries
         /\ processing_log' = processing_log \o tx.log
         /\ tx' = EmptyTx
         /\ db_lock' = 0
    ELSE UNCHANGED <<headlines, summaries, processing_log, tx, db_lock>>

\* mutant: the rollback also takes back the last committed log row
rollback_committed_log(p) ==
    /\ IF db_lock = p
       THEN tx' = EmptyTx /\ db_lock' = 0
       ELSE UNCHANGED <<tx, db_lock>>
    /\ processing_log' = SubSeq(processing_log, 1, Len(processing_log) - 1)
    /\ UNCHANGED <<headlines, summaries>>

\* conn.rollback(), and what conn.close() does to an open transaction
Rollback(p) ==
    /\ IF db_lock = p
       THEN tx' = EmptyTx /\ db_lock' = 0
       ELSE UNCHANGED <<tx, db_lock>>
    /\ UNCHANGED <<headlines, summaries, processing_log>>

\* the loop is over: conn.commit()
save_commit_articles(p) ==
    /\ pcS[p] = "insert"
    /\ art_idx[p] > Len(articles[p])
    /\ Commit(p)
    /\ pcS' = [pcS EXCEPT ![p] = "log_success"]
    /\ UNCHANGED <<faults, call_no, articles, art_idx, saved_count, save_ret>>
    /\ UNCHANGED notStore

\* INSERT INTO processing_log ... ('scrape', 'success', ..., saved_count)
save_log_success(p) ==
    /\ pcS[p] = "log_success"
    /\ db_lock \in {0, p}
    /\ tx' = [tx EXCEPT !.log = Append(@,
                [operation_type |-> "scrape", status |-> "success",
                 message |-> Len(articles[p]), items_processed |-> saved_count[p],
                 by |-> <<p, call_no[p]>>])]
    /\ db_lock' = p
    /\ pcS' = [pcS EXCEPT ![p] = "commit_log"]
    /\ UNCHANGED <<headlines, summaries, processing_log, faults,
                   call_no, articles, art_idx, saved_count, save_ret>>
    /\ UNCHANGED notStore

\* the second conn.commit(), then finally: conn.close() and return saved_count
save_commit_log(p) ==
    /\ pcS[p] = "commit_log"
    /\ Commit(p)
    /\ pcS' = [pcS EXCEPT ![p] = "done"]
    /\ save_ret' = [save_ret EXCEPT ![p] =
            [call |-> call_no[p], outcome |-> "returned", value |-> saved_count[p]]]
    /\ UNCHANGED <<faults, call_no, articles, art_idx, saved_count>>
    /\ UNCHANGED notStore

\* a statement of the try block raises an exception other than IntegrityError
save_error_in_try(p) ==
    /\ faults < MaxFaults
    /\ \/ pcS[p] = "insert" /\ (art_idx[p] <= Len(articles[p]) \/ db_lock = p)
       \/ pcS[p] \in {"log_success", "commit_log"}
    /\ faults' = faults + 1
    /\ pcS' = [pcS EXCEPT ![p] = "rollback"]
    /\ UNCHANGED <<headlines, summaries, processing_log, db_lock, tx,
                   call_no, articles, art_idx, saved_count, save_ret>>
    /\ UNCHANGED notStore

\* except Exception: logger.error(...); conn.rollback()
save_rollback(p) ==
    /\ pcS[p] = "rollback"
    /\ Rollback(p)
    /\ pcS' = [pcS EXCEPT ![p] = "log_failure"]
    /\ UNCHANGED <<faults, call_no, articles, art_idx, saved_count, save_ret>>
    /\ UNCHANGED notStore

\* INSERT INTO processing_log ... ('scrape', 'failure', str(e))
save_log_failure(p) ==
    /\ pcS[p] = "log_failure"
    /\ db_lock \in {0, p}
    /\ tx' = [tx EXCEPT !.log = Append(@,
                [operation_type |-> "scrape", status |-> "failure",
                 message |-> 0, items_processed |-> DefaultItemsProcessed,
                 by |-> <<p, call_no[p]>>])]
    /\ db_lock' = p
    /\ pcS' = [pcS EXCEPT ![p] = "commit_failure"]
    /\ UNCHANGED <<headlines, summaries, processing_log, faults,
                   call_no, articles, art_idx, saved_count, save_ret>>
    /\ UNCHANGED notStore

\* the handler's conn.commit(), then finally: conn.close() and return saved_count
save_commit_failure(p) ==
    /\ pcS[p] = "commit_failure"
    /\ Commit(p)
    /\ pcS' = [pcS EXCEPT ![p] = "done"]
    /\ save_ret' = [save_ret EXCEPT ![p] =
            [call |-> call_no[p], outcome |-> "returned", value |-> saved_count[p]]]
    /\ UNCHANGED <<faults, call_no, articles, art_idx, saved_count>>
    /\ UNCHANGED notStore

\* a statement of the except block raises: finally closes the connection and
\* the exception leaves _save_articles and scrape_news
save_error_in_handler(p) ==
    /\ faults < MaxFaults
    /\ pcS[p] \in {"log_failure", "commit_failure"}
    /\ faults' = faults + 1
    /\ Rollback(p)
    /\ pcS' = [pcS EXCEPT ![p] = "raised"]
    /\ save_ret' = [save_ret EXCEPT ![p] =
            [call |-> call_no[p], outcome |-> "raised", value |-> 0]]
    /\ UNCHANGED <<call_no, articles, art_idx, saved_count>>
    /\ UNCHANGED notStore

InitFetchIdle ==
    /\ pcF = "off"
    /\ keywords = <<>>
    /\ kw_idx = 1
    /\ attempt = 0
    /\ all_articles = <<>>
    /\ http_log = <<>>
    /\ sleep_log = <<>>

InitSummLocals ==
    /\ pcM = [p \in Procs |-> "idle"]
    /\ run_no = [p \in Procs |-> 0]
    /\ sel = [p \in Procs |-> <<>>]
    /\ sel_idx = [p \in Procs |-> 1]
    /\ costs = [p \in Procs |-> NoTokens]
    /\ reported = [p \in Procs |-> NoTokens]
    /\ summary = [p \in Procs |-> None]
    /\ summarized_count = [p \in Procs |-> 0]
    /\ processed = [p \in Procs |-> <<>>]
    /\ summ_ret = [p \in Procs |-> [run |-> 0, outcome |-> None, value |-> 0]]

\* every page gives its text
InitSummIdle ==
    /\ InitSummLocals
    /\ pages = [l \in Links |-> "text"]
    /\ classifier = [l \in Links |-> Responded(<<Piece("Electronics & Gaming")>>)]

(***************************************************************************)
(* NewsScraper.scrape_news and _fetch_rss_feed: one call by caller 1.      *)
(* Time passes only in time.sleep; a request takes no time.                *)
(***************************************************************************)
max_retries == 3
retry_delay == 1

\* urlparse(url).netloc of every URL _build_google_news_url returns
FeedDomain == "news.google.com"

\* entry.get('published') of a feed entry: a text _parse_date can read in
\* one of its formats (value: the datetime it then yields), or a missing or
\* unreadable one
Dated(d) == [readable |-> TRUE, value |-> d]
NoDate == [readable |-> FALSE, value |-> RecentDate]

\* feed.entries of a response: up to two entries; entry.get('link', '') is ''
\* for an entry without a link
FeedPool(k) == {Entry("a", Dated(RecentDate), k), Entry("b", NoDate, k),
                Entry("a", Dated(OldDate), k), Entry("", Dated(RecentDate), k)}
FeedChoices(k) == SeqsUpTo(FeedPool(k), 2)

\* _parse_date: the datetime of the first format that matches; without a
\* text, or when no format matches, datetime.now()
parse_date(date_string, now) ==
    IF date_string.readable THEN date_string.value ELSE now

\* for entry in feed.entries: article = {...}; if article['link']: articles.append(article)
parse_entries(feed, now) ==
    SelectSeq([i \in DOMAIN feed |->
                  Entry(feed[i].link, parse_date(feed[i].published, now), feed[i].keyword)],
              LAMBDA e : e.link # "")

\* mutant: the delay does not grow
backoff_constant(att) == retry_delay

\* time.sleep(retry_delay * (2 ** attempt))
backoff_seconds(att) == retry_delay * (2 ^ att)

\* mutant: one retry too many
should_retry_once_more(att) == att < max_retries

\* if attempt < max_retries - 1
should_retry(att) == att < max_retries - 1

\* the loop "for keyword in keywords" moves on, or ends
next_keyword_pc(k) == IF k < Len(keywords) THEN "gate" ELSE "collect"

\* mutant: the failure of a keyword's fetch leaves scrape_news
fetch_failed_raises(k) == "raised"

\* return [] after the last failed attempt or an unexpected error
fetch_failed_pc(k) == next_keyword_pc(k)

InitFetch ==
    /\ pcF = "start"
    /\ keywords = <<>>
    /\ kw_idx = 1
    /\ attempt = 0
    /\ all_articles = <<>>
    /\ http_log = <<>>
    /\ sleep_log = <<>>

fetchFrame == <<pureVars, digestVars, appVars, dbVars, saveVars, summVars>>

\* settings['keywords'].split(','): the pieces of the stored keywords text
KeywordSettings == {<<"">>, <<" ">>, <<"rollback">>, <<"markdown", " rollback">>,
                    <<"markdown", "", "rollback">>}

\* k.strip() on the pieces above
strip(k) == CASE k = " " -> ""
              [] k = " rollback" -> "rollback"
              [] OTHER -> k

\* [k.strip() for k in settings['keywords'].split(',') if k.strip()]
get_keywords_list(raw) ==
    SelectSeq([i \in DOMAIN raw |-> strip(raw[i])], LAMBDA k : k # "")

\* mutant: the loop body runs before the list is tested
loop_entry_unchecked(kws) == "gate"

\* "for keyword in keywords": into the first iteration, or past the loop
loop_entry_pc(kws) == IF Len(kws) = 0 THEN "collect" ELSE "gate"

\* keywords = self.settings_manager.get_keywords_list(); all_articles = []
scrape_news_begin ==
    /\ pcF = "start"
    /\ \E raw \in KeywordSettings :
          /\ keywords' = get_keywords_list(raw)
          /\ pcF' = loop_entry_pc(get_keywords_list(raw))
    /\ UNCHANGED <<kw_idx, attempt, all_articles, http_log, sleep_log>>
    /\ UNCHANGED rlVars
    /\ UNCHANGED fetchFrame

\* mutant: wait_if_needed returns after its first check, whatever it said
wait_if_needed_unchecked ==
    /\ pcF = "gate"
    /\ can_request(FeedDomain)
    /\ pcF' = "request"
    /\ UNCHANGED <<keywords, kw_idx, attempt, all_articles, http_log, sleep_log>>
    /\ UNCHANGED fetchFrame

\* wait_if_needed: one evaluation of "while not self.can_request(domain)"
wait_if_needed_check ==
    /\ pcF = "gate"
    /\ can_request(FeedDomain)
    /\ pcF' = IF under_limit(purge(requests[FeedDomain], clock))
              THEN "request" ELSE "poll_sleep"
    /\ UNCHANGED <<keywords, kw_idx, attempt, all_articles, http_log, sleep_log>>
    /\ UNCHANGED fetchFrame

\* wait_if_needed: time.sleep(1)
wait_if_needed_sleep ==
    /\ pcF = "poll_sleep"
    /\ clock' = clock + 1
    /\ sleep_log' = Append(sleep_log, [kind |-> "poll", seconds |-> 1,
                                       kw |-> kw_idx, after |-> Len(http_log)])
    /\ pcF' = "gate"
    /\ UNCHANGED <<requests, issued, rl_check>>
    /\ UNCHANGED <<keywords, kw_idx, attempt, all_articles, http_log>>
    /\ UNCHANGED fetchFrame

Response(outcome, feed) ==
    [kw |-> kw_idx, attempt |-> attempt, at |-> clock, outcome |-> outcome, feed |-> feed]

\* the keyword's fetch is over: scrape_news extends all_articles by what it returned
fetch_returns(returned, pc) ==
    /\ all_articles' = all_articles \o returned
    /\ pcF' = pc
    /\ kw_idx' = IF pc = "gate" THEN kw_idx + 1 ELSE kw_idx
    /\ attempt' = IF pc = "gate" THEN 0 ELSE attempt
    /\ UNCHANGED keywords

\* add_request, session.get and raise_for_status succeed, the feed is parsed
fetch_response_ok ==
    /\ pcF = "request"
    /\ add_request(FeedDomain)
    /\ \E feed \in FeedChoices(keywords[kw_idx]) :
          /\ http_log' = Append(http_log, Response("ok", feed))
          /\ fetch_returns(parse_entries(feed, clock), next_keyword_pc(kw_idx))
    /\ UNCHANGED sleep_log
    /\ UNCHANGED fetchFrame

\* mutant: a failing attempt is not recorded in the RateLimiter
fetch_request_exception_unrecorded ==
    /\ pcF = "request"
    /\ UNCHANGED rlVars
    /\ http_log' = Append(http_log, Response("transient", <<>>))
    /\ IF should_retry(attempt)
       THEN /\ pcF' = "backoff"
            /\ UNCHANGED <<keywords, kw_idx, attempt, all_articles>>
       ELSE fetch_returns(<<>>, fetch_failed_pc(kw_idx))
    /\ UNCHANGED sleep_log
    /\ UNCHANGED fetchFrame

\* add_request, then session.get or raise_for_status raises a RequestException
fetch_request_exception ==
    /\ pcF = "request"
    /\ add_request(FeedDomain)
    /\ http_log' = Append(http_log, Response("transient", <<>>))
    /\ IF should_retry(attempt)
       THEN /\ pcF' = "backoff"
            /\ UNCHANGED <<keywords, kw_idx, attempt, all_articles>>
       ELSE fetch_returns(<<>>, fetch_failed_pc(kw_idx))
    /\ UNCHANGED sleep_log
    /\ UNCHANGED fetchFrame

\* add_request, then any other exception inside the try block
fetch_unexpected_exception ==
    /\ pcF = "request"
    /\ add_request(FeedDomain)
    /\ http_log' = Append(http_log, Response("unexpected", <<>>))
    /\ fetch_returns(<<>>, fetch_failed_pc(kw_idx))
    /\ UNCHANGED sleep_log
    /\ UNCHANGED fetchFrame

\* time.sleep(retry_delay * (2 ** attempt)), then the next attempt of the
\* loop "for attempt in range(max_retries)"; a loop that ran out would return
\* None, on which all_articles.extend raises TypeError
fetch_backoff ==
    /\ pcF = "backoff"
    /\ clock' = clock + backoff_seconds(attempt)
    /\ sleep_log' = Append(sleep_log, [kind |-> "backoff", seconds |-> backoff_seconds(attempt),
                                       kw |-> kw_idx, after |-> Len(http_log)])
    /\ attempt' = attempt + 1
    /\ pcF' = IF attempt + 1 < max_retries THEN "gate" ELSE "raised"
    /\ UNCHANGED <<requests, issued, rl_check>>
    /\ UNCHANGED <<keywords, kw_idx, all_articles, http_log>>
    /\ UNCHANGED fetchFrame

\* unique_articles, recent_articles, and the call of _save_articles
scrape_news_save ==
    /\ pcF = "collect"
    /\ begin_save(1, all_articles)
    /\ pcF' = "save"
    /\ UNCHANGED <<keywords, kw_idx, attempt, all_articles, http_log, sleep_log>>
    /\ UNCHANGED <<pureVars, digestVars, appVars, rlVars, dbVars, summVars>>

\* _save_articles is over: scrape_news returns recent_articles, or the
\* exception of _save_articles leaves it
scrape_news_return ==
    /\ pcF = "save"
    /\ pcS[1] \in {"done", "raised"}
    /\ pcF' = IF pcS[1] = "done" THEN "returned" ELSE "raised"
    /\ UNCHANGED <<keywords, kw_idx, attempt, all_articles, http_log, sleep_log>>
    /\ UNCHANGED <<pureVars, digestVars, appVars, rlVars, dbVars, saveVars, summVars>>

InitSpecFetch ==
    /\ InitDedupIdle /\ InitFnIdle /\ InitRLIdle /\ InitFetch /\ InitDBIdle
    /\ InitSaveIdle /\ InitDigestIdle /\ InitAppIdle /\ InitSummIdle
    /\ headlines \in {<<>>, <<[link |-> "a", published |-> RecentDate, by |-> <<0, 0>>]>>}

NextFetch ==
    \/ scrape_news_begin
    \/ wait_if_needed_check
    \/ wait_if_needed_sleep
    \/ fetch_response_ok
    \/ fetch_request_exception
    \/ fetch_unexpected_exception
    \/ fetch_backoff
    \/ scrape_news_save
    \/ save_insert(1)
    \/ save_commit_articles(1)
    \/ save_log_success(1)
    \/ save_commit_log(1)
    \/ save_error_in_try(1)
    \/ save_rollback(1)
    \/ save_log_failure(1)
    \/ save_commit_failure(1)
    \/ save_error_in_handler(1)
    \/ scrape_news_return

SpecFetch == InitSpecFetch /\ [][NextFetch]_vars

(***************************************************************************)
(* SpecStore: ingest calls of the scheduled job and of the manual refresh, *)
(* overlapping freely.  The keyword loop of a call touches no shared state *)
(* (each call builds its own NewsScraper); what it hands on is all_articles.*)
(***************************************************************************)
\* a row stored by an earlier run
OldRow == [link |-> "a", published |-> RecentDate, by |-> <<0, 0>>]

\* what the keyword loop of a SpecStore call may hand on
StoreEntries == {e \in Entries : e.keyword = Keywords[1] /\ e.link \in {"a", "b"}}
StoreBatches == SeqsUpTo(StoreEntries, 2)

InitStore ==
    /\ InitDedupIdle /\ InitFnIdle /\ InitRLIdle /\ InitFetchIdle /\ InitDBIdle
    /\ InitSaveIdle /\ InitDigestIdle /\ InitAppIdle /\ InitSummIdle
    /\ headlines \in {<<>>, <<OldRow>>}

\* scrape_news up to _save_articles, all_articles being what the feeds gave
store_scrape_news(p) ==
    /\ pcS[p] \in {"idle", "done", "raised"}
    /\ call_no[1] + call_no[2] < MaxCalls
    /\ \E all \in StoreBatches : begin_save(p, all)
    /\ UNCHANGED dbVars
    /\ UNCHANGED notStore

NextStore ==
    \E p \in Procs :
        \/ store_scrape_news(p)
        \/ save_insert(p)
        \/ save_commit_articles(p)
        \/ save_log_success(p)
        \/ save_commit_log(p)
        \/ save_error_in_try(p)
        \/ save_rollback(p)
        \/ save_log_failure(p)
        \/ save_commit_failure(p)
        \/ save_error_in_handler(p)

SpecStore == InitStore /\ [][NextStore]_vars

InitSpecDedup ==
    /\ InitDedup /\ InitFnIdle /\ InitRLIdle /\ InitFetchIdle /\ InitDBIdle /\ headlines = <<>>
    /\ InitSaveIdle /\ InitDigestIdle /\ InitAppIdle /\ InitSummIdle

NextDedup == call_deduplicate_articles

SpecDedup == InitSpecDedup /\ [][NextDedup]_vars

(***************************************************************************)
(* SpecRL: one RateLimiter, called in any order while time passes.         *)
(***************************************************************************)
rlFrame == <<pureVars, digestVars, appVars, fetchVars, dbVars, saveVars, summVars>>

rl_can_request(d) ==
    /\ can_request(d)
    /\ UNCHANGED rlFrame

rl_add_request(d) ==
    /\ TotalIssued < MaxIssued
    /\ add_request(d)
    /\ UNCHANGED rlFrame

rl_time_passes ==
    /\ time_passes
    /\ UNCHANGED rlFrame

InitSpecRL ==
    /\ InitDedupIdle /\ InitFnIdle /\ InitRLIdle /\ InitFetchIdle /\ InitDBIdle /\ headlines = <<>>
    /\ InitSaveIdle /\ InitDigestIdle /\ InitAppIdle /\ InitSummIdle

NextRL ==
    \/ \E d \in Domains : rl_can_request(d) \/ rl_add_request(d)
    \/ rl_time_passes

SpecRL == InitSpecRL /\ [][NextRL]_vars

(***************************************************************************)
(* SpecSumm: Summarizer.summarize_new_headlines run by the scheduled job   *)
(* and by the manual refresh, overlapping freely, over a store that holds  *)
(* some headlines and no summary yet.  A headline's id is its position in  *)
(* the table.  summaries is written by a plain INSERT: the code handles no *)
(* IntegrityError there and checks nothing before it.                      *)
(***************************************************************************)
MaxRuns == 2              \* summarize runs of a SpecSumm run, both callers
SelectLimit == 50         \* LIMIT 50

\* self.topics
topics == <<"Electronics & Gaming", "Home & Garden", "Clothing & Fashion",
            "Health & Beauty", "Food & Beverages", "Toys & Baby",
            "Sports & Outdoors", "Automotive", "Books & Media", "General Retail">>

\* response.choices[0].message.content.strip(), as one string when it is one
\* piece
classified_topic(reply) ==
    IF Len(str_strip(reply.content)) = 1 THEN str_strip(reply.content)[1][1]
    ELSE "no single piece"

\* mutant: the reply is returned without validation
classify_topic_unchecked(reply) ==
    IF ~reply.responded THEN "General Retail" ELSE classified_topic(reply)

\* TopicClassifier.classify_topic
classify_topic(reply) ==
    IF ~reply.responded THEN "General Retail"
    ELSE IF classified_topic(reply) \in Range(topics) THEN classified_topic(reply)
    ELSE "General Retail"

\* what _generate_summary may return: the text, an empty text, None
GenResults == {"summary", "", None}

notSumm == <<pureVars, digestVars, appVars, rlVars, fetchVars, saveVars>>

Min(a, b) == IF a <= b THEN a ELSE b

Summarized(ss) == {ss[i].headline_id : i \in DOMAIN ss}

\* the first n of ids by published_date DESC: every list the ORDER BY may
\* give (rows of equal date come in either order)
RECURSIVE ordered_prefixes(_, _, _)
ordered_prefixes(hs, ids, n) ==
    IF n = 0 \/ ids = {} THEN {<<>>}
    ELSE LET tops == {i \in ids : \A j \in ids : hs[i].published >= hs[j].published}
         IN  UNION {{<<t>> \o s : s \in ordered_prefixes(hs, ids \ {t}, n - 1)} : t \in tops}

\* mutant: the query has no LIMIT
select_unsummarized_unlimited(hs, ss) ==
    ordered_prefixes(hs, {i \in DOMAIN hs : i \notin Summarized(ss)}, Len(hs))

\* SELECT h.id ... LEFT JOIN summaries s ... WHERE s.id IS NULL
\* ORDER BY h.published_date DESC LIMIT 50: every list the query may return
select_unsummarized(hs, ss) ==
    ordered_prefixes(hs, {i \in DOMAIN hs : i \notin Summarized(ss)}, SelectLimit)

\* whether INSERT INTO summaries is refused for a headline that has a
\* Summary: the table is keyed by a generated id, headline_id is a plain
\* reference
summary_conflict(ss, id) == FALSE

\* "if not summary: return False"
not_summary(r) == r \in {"", None}

\* the for loop of summarize_new_headlines after one headline
after_headline_pc(p) == IF sel_idx[p] + 1 <= Len(sel[p]) THEN "generate" ELSE "log"

\* mutant: no try/except around one headline, its failure leaves the run
headline_failed_raises(p) == "raised"

\* _summarize_headline returned False: success is false, the loop goes on
headline_failed_pc(p) == after_headline_pc(p)

\* 'success' if summarized > 0 else 'failure'
log_status(summarized) == IF summarized > 0 THEN "success" ELSE "failure"

\* what extract_content may return: the page's text, an empty text, None
\* (any exception inside it)
ExtractResults == {"text", "", None}

\* self.content_extractor.extract_content(headline['link'])
extract_content(link) == pages[link]

\* mutant: no fallback to the title
content_no_fallback(ex) == ex

\* "if not content: content = headline['title']"
content_or_title(ex) == IF ex \in {"", None} THEN "title" ELSE ex

\* content[:2000] inside the try of _generate_summary raises on None
prompt_builds(content) == content # None

\* the headline of the running iteration
Headline(p) == headlines[sel[p][sel_idx[p]]]

\* the content _summarize_headline hands to _generate_summary
Content(p) == content_or_title(extract_content(Headline(p).link))

\* what _generate_summary returns when the API would answer reply
generate_summary(content, reply) == IF prompt_builds(content) THEN reply ELSE None

\* CostTracker.add_usage: the totals after one more call
add_usage(c, input, output) ==
    [total_input_tokens |-> c.total_input_tokens + input,
     total_output_tokens |-> c.total_output_tokens + output]

\* whether the summary-generation call returned a response
summary_responded(content, reply) == prompt_builds(content) /\ reply # None

\* _generate_summary: self.cost_tracker.add_usage(...) after a response
costs_after_summary(c, content, reply) ==
    IF summary_responded(content, reply)
    THEN add_usage(c, prompt_tokens, completion_tokens) ELSE c

\* classify_topic: no call of add_usage, with or without a response
costs_after_classify(c, reply) == c

\* the tokens the responses have reported, after one more call of the model
reported_after(r, responded) ==
    IF responded
    THEN [total_input_tokens |-> r.total_input_tokens + prompt_tokens,
          total_output_tokens |-> r.total_output_tokens + completion_tokens]
    ELSE r

\* the history entry of one processed headline: what extraction gave, whether
\* the API's answer was a text, how the iteration ended
Outcome(p, reply, what) ==
    [id |-> sel[p][sel_idx[p]], extracted |-> extract_content(Headline(p).link),
     generated |-> ~not_summary(reply), outcome |-> what]

\* summarize_new_headlines up to the loop: the SELECT, the early return
summarize_select(p) ==
    /\ pcM[p] \in {"idle", "done"}
    /\ run_no[1] + run_no[2] < MaxRuns
    /\ \E s \in select_unsummarized(headlines, summaries) :
          /\ sel' = [sel EXCEPT ![p] = s]
          /\ IF s = <<>>
             THEN /\ pcM' = [pcM EXCEPT ![p] = "done"]
                  /\ summ_ret' = [summ_ret EXCEPT ![p] =
                        [run |-> run_no[p] + 1, outcome |-> "returned", value |-> 0]]
             ELSE /\ pcM' = [pcM EXCEPT ![p] = "generate"]
                  /\ UNCHANGED summ_ret
    /\ run_no' = [run_no EXCEPT ![p] = @ + 1]
    /\ sel_idx' = [sel_idx EXCEPT ![p] = 1]
    /\ summarized_count' = [summarized_count EXCEPT ![p] = 0]
    /\ processed' = [processed EXCEPT ![p] = <<>>]
    /\ summary' = [summary EXCEPT ![p] = None]
    /\ costs' = [costs EXCEPT ![p] = NoTokens]
    /\ reported' = [reported EXCEPT ![p] = NoTokens]
    /\ UNCHANGED world
    /\ UNCHANGED dbVars
    /\ UNCHANGED notSumm

\* _summarize_headline: extract_content, the title fallback, and
\* _generate_summary gave a text
summarize_generate_ok(p) ==
    /\ pcM[p] = "generate"
    /\ \E reply \in GenResults :
          /\ ~not_summary(generate_summary(Content(p), reply))
          /\ summary' = [summary EXCEPT ![p] = generate_summary(Content(p), reply)]
          /\ costs' = [costs EXCEPT ![p] = costs_after_summary(@, Content(p), reply)]
          /\ reported' = [reported EXCEPT ![p] = reported_after(@, summary_responded(Content(p), reply))]
    /\ pcM' = [pcM EXCEPT ![p] = "save"]
    /\ UNCHANGED <<run_no, sel, world, sel_idx, summarized_count, processed, summ_ret>>
    /\ UNCHANGED dbVars
    /\ UNCHANGED notSumm

\* _generate_summary gave None (building the prompt or the API call raised)
\* or an empty text: _summarize_headline returns False
summarize_generate_nothing(p) ==
    /\ pcM[p] = "generate"
    /\ \E reply \in GenResults :
          /\ not_summary(generate_summary(Content(p), reply))
          /\ processed' = [processed EXCEPT ![p] = Append(@, Outcome(p, reply, "no_summary"))]
          /\ costs' = [costs EXCEPT ![p] = costs_after_summary(@, Content(p), reply)]
          /\ reported' = [reported EXCEPT ![p] = reported_after(@, summary_responded(Content(p), reply))]
    /\ pcM' = [pcM EXCEPT ![p] = headline_failed_pc(p)]
    /\ sel_idx' = [sel_idx EXCEPT ![p] = @ + 1]
    /\ UNCHANGED <<run_no, sel, world, summary, summarized_count, summ_ret>>
    /\ UNCHANGED dbVars
    /\ UNCHANGED notSumm

\* _save_summary: classify_topic (never raises) and INSERT INTO summaries
save_summary_insert(p) ==
    /\ pcM[p] = "save"
    /\ db_lock \in {0, p}
    /\ ~summary_conflict(summaries \o tx.summaries, sel[p][sel_idx[p]])
    /\ tx' = [tx EXCEPT !.summaries = Append(@,
                 [headline_id |-> sel[p][sel_idx[p]],
                  topic |-> classify_topic(classifier[Headline(p).link]),
                  created_at |-> clock,
                  by |-> <<p, run_no[p]>>])]
    /\ db_lock' = p
    /\ pcM' = [pcM EXCEPT ![p] = "save_commit"]
    /\ costs' = [costs EXCEPT ![p] = costs_after_classify(@, classifier[Headline(p).link])]
    /\ reported' = [reported EXCEPT ![p] = reported_after(@, classifier[Headline(p).link].responded)]
    /\ UNCHANGED <<headlines, summaries, processing_log, faults>>
    /\ UNCHANGED <<run_no, sel, world, sel_idx, summary, summarized_count, processed, summ_ret>>
    /\ UNCHANGED notSumm

\* mutant: every processed headline is counted
count_every_headline(n, success) == n + 1

\* "if success: summarized_count += 1"
count_after(n, success) == IF success THEN n + 1 ELSE n

\* conn.commit(); _summarize_headline returns True; summarized_count += 1
save_summary_commit(p) ==
    /\ pcM[p] = "save_commit"
    /\ Commit(p)
    /\ summarized_count' = [summarized_count EXCEPT ![p] = count_after(@, TRUE)]
    /\ processed' = [processed EXCEPT ![p] = Append(@, Outcome(p, summary[p], "saved"))]
    /\ pcM' = [pcM EXCEPT ![p] = after_headline_pc(p)]
    /\ sel_idx' = [sel_idx EXCEPT ![p] = @ + 1]
    /\ summary' = [summary EXCEPT ![p] = None]
    /\ UNCHANGED <<faults, run_no, sel, world, ledger, summ_ret>>
    /\ UNCHANGED notSumm

\* the INSERT or the commit raises: rollback, raise, and the except of
\* _summarize_headline returns False
save_summary_error(p) ==
    /\ faults < MaxFaults
    /\ pcM[p] \in {"save", "save_commit"}
    /\ faults' = faults + 1
    /\ Rollback(p)
    /\ processed' = [processed EXCEPT ![p] = Append(@, Outcome(p, summary[p], "save_raised"))]
    /\ pcM' = [pcM EXCEPT ![p] = headline_failed_pc(p)]
    /\ sel_idx' = [sel_idx EXCEPT ![p] = @ + 1]
    /\ summary' = [summary EXCEPT ![p] = None]
    /\ summarized_count' = [summarized_count EXCEPT ![p] = count_after(@, FALSE)]
    /\ UNCHANGED <<run_no, sel, world, ledger, summ_ret>>
    /\ UNCHANGED notSumm

\* _log_operation: INSERT INTO processing_log ('summarize', status, ...)
log_operation_insert(p) ==
    /\ pcM[p] = "log"
    /\ db_lock \in {0, p}
    /\ tx' = [tx EXCEPT !.log = Append(@,
                [operation_type |-> "summarize",
                 status |-> log_status(summarized_count[p]),
                 message |-> Len(sel[p]), items_processed |-> summarized_count[p],
                 by |-> <<p, run_no[p]>>])]
    /\ db_lock' = p
    /\ pcM' = [pcM EXCEPT ![p] = "log_commit"]
    /\ UNCHANGED <<headlines, summaries, processing_log, faults>>
    /\ UNCHANGED <<run_no, sel, world, ledger, sel_idx, summary, summarized_count, processed, summ_ret>>
    /\ UNCHANGED notSumm

\* conn.commit(), conn.close(), return summarized_count
log_operation_commit(p) ==
    /\ pcM[p] = "log_commit"
    /\ Commit(p)
    /\ pcM' = [pcM EXCEPT ![p] = "done"]
    /\ summ_ret' = [summ_ret EXCEPT ![p] =
            [run |-> run_no[p], outcome |-> "returned", value |-> summarized_count[p]]]
    /\ UNCHANGED <<faults, run_no, sel, world, ledger, sel_idx, summary, summarized_count, processed>>
    /\ UNCHANGED notSumm

\* the INSERT or the commit of _log_operation raises: the except only logs,
\* conn.close() drops the open transaction, return summarized_count
log_operation_error(p) ==
    /\ faults < MaxFaults
    /\ pcM[p] \in {"log", "log_commit"}
    /\ faults' = faults + 1
    /\ Rollback(p)
    /\ pcM' = [pcM EXCEPT ![p] = "done"]
    /\ summ_ret' = [summ_ret EXCEPT ![p] =
            [run |-> run_no[p], outcome |-> "returned", value |-> summarized_count[p]]]
    /\ UNCHANGED <<run_no, sel, world, ledger, sel_idx, summary, summarized_count, processed>>
    /\ UNCHANGED notSumm

\* the headlines an earlier ingest stored
SummRows == <<[link |-> "a", published |-> RecentDate, by |-> <<0, 0>>],
              [link |-> "b", published |-> OldDate, by |-> <<0, 0>>],
              [link |-> "c", published |-> OldDate, by |-> <<0, 0>>]>>

InitSpecSumm ==
    /\ InitDedupIdle /\ InitFnIdle /\ InitRLIdle /\ InitFetchIdle /\ InitDBIdle
    /\ InitSaveIdle /\ InitDigestIdle /\ InitAppIdle /\ InitSummIdle
    /\ headlines \in {SubSeq(SummRows, 1, n) : n \in 0..2}

NextSumm ==
    \E p \in Procs :
        \/ summarize_select(p)
        \/ summarize_generate_ok(p)
        \/ summarize_generate_nothing(p)
        \/ save_summary_insert(p)
        \/ save_summary_commit(p)
        \/ save_summary_error(p)
        \/ log_operation_insert(p)
        \/ log_operation_commit(p)
        \/ log_operation_error(p)

SpecSumm == InitSpecSumm /\ [][NextSumm]_vars

\* what the pages of the two stored headlines give: each of the failures of
\* extract_content on either page, next to a page that gives its text
PageWorlds == {<<None, "">>, <<"", None>>, <<"text", "">>, <<None, "text">>}

\* the summarizer over a web whose pages may give a text, no text, or make
\* extract_content fail
InitSpecExtract ==
    /\ InitDedupIdle /\ InitFnIdle /\ InitRLIdle /\ InitFetchIdle /\ InitDBIdle
    /\ InitSaveIdle /\ InitDigestIdle /\ InitAppIdle /\ InitSummLocals
    /\ pages \in {[l \in Links |-> CASE l = "a" -> w[1] [] l = "b" -> w[2] [] OTHER -> "text"] :
                    w \in PageWorlds}
    /\ classifier = [l \in Links |-> Responded(<<Piece("Electronics & Gaming")>>)]
    /\ headlines = SubSeq(SummRows, 1, 2)

SpecExtract == InitSpecExtract /\ [][NextSumm]_vars

(***************************************************************************)
(* SpecClassify: the summarizer over one stored headline, for every kind   *)
(* of reply of the classification model.                                   *)
(***************************************************************************)
\* a label alone, a label inside white space, a label followed by more text,
\* texts that are no label, and no response at all (create() raised)
TopicReplies ==
    {Responded(lead \o <<Piece(topics[i])>> \o trail) :
        i \in DOMAIN topics, lead \in {<<>>, <<Blank>>}, trail \in {<<>>, <<Newline>>}}
    \cup {Responded(<<Piece(topics[i]), Piece(".")>>) : i \in DOMAIN topics}
    \cup {Responded(<<Piece("electronics & gaming")>>), Responded(<<Piece("Retail")>>),
          Responded(<<>>),
          Responded(<<Piece("Automotive"), Blank, Piece("Books & Media")>>),
          NoResponse}

InitSpecClassify ==
    /\ InitDedupIdle /\ InitFnIdle /\ InitRLIdle /\ InitFetchIdle /\ InitDBIdle
    /\ InitSaveIdle /\ InitDigestIdle /\ InitAppIdle /\ InitSummLocals
    /\ pages = [l \in Links |-> "text"]
    /\ classifier \in {[l \in Links |-> IF l = "a" THEN r
                                        ELSE Responded(<<Piece("General Retail")>>)] :
                         r \in TopicReplies}
    /\ headlines = SubSeq(SummRows, 1, 1)

SpecClassify == InitSpecClassify /\ [][NextSumm]_vars

(***************************************************************************)
(* SpecSelect: the SELECT of summarize_new_headlines over stores of about  *)
(* fifty headlines, some of them summarized.                               *)
(***************************************************************************)
MinRows == 48             \* fewest headlines of a SpecSelect store
MaxRows == 53             \* most headlines of a SpecSelect store

DatePatterns == {"newest_first", "newest_last", "scattered", "tie"}

\* published_date of headline i of n under a pattern; "tie" makes the
\* headlines around the LIMIT share a date
PatternDate(pat, i, n) ==
    CASE pat = "newest_first" -> 0 - i
      [] pat = "newest_last"  -> i - n
      [] pat = "scattered"    -> 0 - ((i * 23) % (n + 1))
      [] OTHER                -> IF i = SelectLimit + 1 THEN 0 - SelectLimit ELSE 0 - i

SummarizedPatterns == {"none", "first", "fifth", "all"}

\* the headlines that have a Summary under a pattern
PatternSummarized(pat, n) ==
    CASE pat = "none"  -> {}
      [] pat = "first" -> {1}
      [] pat = "fifth" -> {i \in 1..n : i % 5 = 0}
      [] OTHER         -> 1..n

\* a set of ids as a sequence, ascending
RECURSIVE SeqOfSet(_)
SeqOfSet(S) ==
    IF S = {} THEN <<>>
    ELSE LET x == CHOOSE y \in S : \A z \in S : y <= z
         IN  <<x>> \o SeqOfSet(S \ {x})

InitSpecSelect ==
    /\ InitDedupIdle /\ InitFnIdle /\ InitRLIdle /\ InitFetchIdle /\ InitSaveIdle /\ InitDigestIdle /\ InitAppIdle /\ InitSummIdle
    /\ processing_log = <<>> /\ db_lock = 0 /\ tx = EmptyTx /\ faults = 0
    /\ \E n \in MinRows..MaxRows, dp \in DatePatterns, sp \in SummarizedPatterns :
          /\ headlines = [i \in 1..n |->
                [link |-> <<"headline", i>>, published |-> PatternDate(dp, i, n),
                 by |-> <<0, 0>>]]
          /\ summaries = [k \in DOMAIN SeqOfSet(PatternSummarized(sp, n)) |->
                [headline_id |-> SeqOfSet(PatternSummarized(sp, n))[k],
                 topic |-> "General Retail", created_at |-> 0, by |-> <<0, 0>>]]

NextSelect == \E p \in Procs : summarize_select(p)

SpecSelect == InitSpecSelect /\ [][NextSelect]_vars

(***************************************************************************)
(* SpecTruncate: the length validation of _generate_summary, over replies  *)
(* of about 40 words.                                                     *)
(***************************************************************************)
WordBudget == 40
MinWords == 38            \* fewest words of a long reply
MaxWords == 42            \* most words of a reply

\* mutant: the validation counts but does not cut
validate_length_keeps(text) == text

\* "if word_count > 40: words = summary.split()[:40];
\*  summary = ' '.join(words) + '...'"
validate_length(text) ==
    IF Len(split(text)) > WordBudget
    THEN join(SubSeq(split(text), 1, WordBudget)) \o <<Ellipsis>>
    ELSE text

\* the text _generate_summary returns for the API's message content
summary_of_response(content) == validate_length(str_strip(content))

\* a reply of n words, sep between two words, pad before and after
RECURSIVE Reply(_, _, _, _)
Reply(n, k, sep, pad) ==
    IF k > n THEN pad
    ELSE (IF k = 1 THEN pad ELSE sep) \o <<<<"w", k>>>> \o Reply(n, k + 1, sep, pad)

WordCounts == {0, 1} \cup (MinWords..MaxWords)
Separators == {<<Blank>>, <<Blank, Blank>>, <<Newline>>}
Paddings == {<<>>, <<Blank>>, <<Newline>>, <<Newline, Blank>>}
Replies == {Reply(n, 1, sep, pad) : n \in WordCounts, sep \in Separators, pad \in Paddings}

InitSpecTruncate ==
    /\ InitDedupIdle /\ InitRLIdle /\ InitFetchIdle /\ InitDBIdle /\ headlines = <<>>
    /\ InitSaveIdle /\ InitDigestIdle /\ InitAppIdle /\ InitSummIdle
    /\ fn_arg \in Replies
    /\ fn_ret = <<>>
    /\ fn_pc = "call"

\* summary = response.choices[0].message.content.strip() ... return summary
call_generate_summary ==
    /\ fn_pc = "call"
    /\ fn_ret' = summary_of_response(fn_arg)
    /\ fn_pc' = "ret"
    /\ UNCHANGED fn_arg
    /\ UNCHANGED <<ddVars, digestVars, appVars, rlVars, fetchVars, dbVars, saveVars, summVars>>

NextTruncate == call_generate_summary

SpecTruncate == InitSpecTruncate /\ [][NextTruncate]_vars

(***************************************************************************)
(* SpecGroup: DailyDigest._group_by_topic over the lists                   *)
(* _get_recent_summaries can hand it.                                      *)
(***************************************************************************)
MaxSummaries == 3         \* longest list handed to _group_by_topic

\* the code points of the characters of a label
ord(label) ==
    CASE label = "Electronics & Gaming" ->
              <<69, 108, 101, 99, 116, 114, 111, 110, 105, 99, 115, 32, 38, 32, 71, 97, 109, 105, 110, 103>>
      [] label = "Home & Garden" ->
              <<72, 111, 109, 101, 32, 38, 32, 71, 97, 114, 100, 101, 110>>
      [] label = "Clothing & Fashion" ->
              <<67, 108, 111, 116, 104, 105, 110, 103, 32, 38, 32, 70, 97, 115, 104, 105, 111, 110>>
      [] label = "Health & Beauty" ->
              <<72, 101, 97, 108, 116, 104, 32, 38, 32, 66, 101, 97, 117, 116, 121>>
      [] label = "Food & Beverages" ->
              <<70, 111, 111, 100, 32, 38, 32, 66, 101, 118, 101, 114, 97, 103, 101, 115>>
      [] label = "Toys & Baby" ->
              <<84, 111, 121, 115, 32, 38, 32, 66, 97, 98, 121>>
      [] label = "Sports & Outdoors" ->
              <<83, 112, 111, 114, 116, 115, 32, 38, 32, 79, 117, 116, 100, 111, 111, 114, 115>>
      [] label = "Automotive" ->
              <<65, 117, 116, 111, 109, 111, 116, 105, 118, 101>>
      [] label = "Books & Media" ->
              <<66, 111, 111, 107, 115, 32, 38, 32, 77, 101, 100, 105, 97>>
      [] label = "General Retail" ->
              <<71, 101, 110, 101, 114, 97, 108, 32, 82, 101, 116, 97, 105, 108>>

\* Python's order of two strings: by code point, a proper prefix first
RECURSIVE seq_less(_, _)
seq_less(a, b) ==
    IF b = <<>> THEN FALSE
    ELSE IF a = <<>> THEN TRUE
    ELSE IF Head(a) # Head(b) THEN Head(a) < Head(b)
    ELSE seq_less(Tail(a), Tail(b))

\* mutant: groups sorted by label only
key_less_by_label(x, y) == seq_less(ord(x), ord(y))

\* the order of the keys (x[0] == 'General Retail', x[0]): False before True,
\* then the labels as strings
key_less(x, y) ==
    IF (x = "General Retail") # (y = "General Retail") THEN y = "General Retail"
    ELSE seq_less(ord(x), ord(y))

\* the keys of grouped, in the order the loop first met them
RECURSIVE first_met(_, _)
first_met(summs, seen) ==
    IF summs = <<>> THEN <<>>
    ELSE IF Head(summs).topic \in seen THEN first_met(Tail(summs), seen)
    ELSE <<Head(summs).topic>> \o first_met(Tail(summs), seen \cup {Head(summs).topic})

\* sorted(...): insertion of one key into a sorted list, behind its equals
RECURSIVE insert_sorted(_, _)
insert_sorted(sorted, k) ==
    IF sorted = <<>> THEN <<k>>
    ELSE IF key_less(k, Head(sorted)) THEN <<k>> \o sorted
    ELSE <<Head(sorted)>> \o insert_sorted(Tail(sorted), k)

RECURSIVE sorted_keys(_)
sorted_keys(ks) ==
    IF ks = <<>> THEN <<>>
    ELSE insert_sorted(sorted_keys(SubSeq(ks, 1, Len(ks) - 1)), ks[Len(ks)])

\* DailyDigest._group_by_topic: the dict as the sequence of its items,
\* <<topic, summaries of that topic in the order of the list>>
group_by_topic(summs) ==
    [i \in DOMAIN sorted_keys(first_met(summs, {})) |->
        <<sorted_keys(first_met(summs, {}))[i],
          SelectSeq(summs, LAMBDA x : x.topic = sorted_keys(first_met(summs, {}))[i])>>]

\* the topics of the lists of a SpecGroup run
GroupTopics == {"General Retail", "Automotive", "Health & Beauty", "Home & Garden",
                "Toys & Baby"}
\* the summaries of these topics, told apart by their link
DigestSummaries == {[topic |-> t, link |-> l] : t \in GroupTopics, l \in {"a", "b"}}

InitSpecGroup ==
    /\ InitDedupIdle /\ InitRLIdle /\ InitFetchIdle /\ InitDBIdle /\ headlines = <<>>
    /\ InitSaveIdle /\ InitDigestIdle /\ InitAppIdle /\ InitSummIdle
    /\ fn_arg \in SeqsUpTo(DigestSummaries, MaxSummaries)
    /\ fn_ret = <<>>
    /\ fn_pc = "call"

\* grouped_summaries = self._group_by_topic(summaries)
call_group_by_topic ==
    /\ fn_pc = "call"
    /\ fn_ret' = group_by_topic(fn_arg)
    /\ fn_pc' = "ret"
    /\ UNCHANGED fn_arg
    /\ UNCHANGED <<ddVars, digestVars, appVars, rlVars, fetchVars, dbVars, saveVars, summVars>>

NextGroup == call_group_by_topic

SpecGroup == InitSpecGroup /\ [][NextGroup]_vars

(***************************************************************************)
(* SpecDigest: one call of DailyDigest.send_daily_digest, over stores whose *)
(* summaries were created around the start of the 24-hour window.           *)
(***************************************************************************)
DigestHours == 24
\* the connection of the digest's _log_operation
Mailer == 3

\* "WHERE s.created_at >= ?" with cutoff = now - hours: created_at holds the
\* moment the row was inserted
created_within(created_at, now, hours) == created_at >= now - hours * SecondsPerHour

\* ORDER BY s.topic, h.published_date DESC: NULL topics first, then by text
row_before(x, y) ==
    IF x.topic # y.topic
    THEN IF x.topic = None \/ y.topic = None THEN x.topic = None
         ELSE seq_less(ord(x.topic), ord(y.topic))
    ELSE x.published_date > y.published_date

\* every order of the rows the ORDER BY allows
RECURSIVE orderings(_)
orderings(rows) ==
    IF rows = {} THEN {<<>>}
    ELSE UNION {{<<x>> \o rest : rest \in orderings(rows \ {x})} :
                    x \in {r \in rows : \A o \in rows : ~row_before(o, r)}}

\* 'topic': row['topic'] or 'General Retail'
topic_or_default(topic) == IF topic = None THEN "General Retail" ELSE topic

\* DailyDigest._get_recent_summaries: the lists it may return
get_recent_summaries(ss, hs, now, hours) ==
    {[i \in DOMAIN o |-> [topic |-> topic_or_default(o[i].topic), link |-> o[i].link]] :
        o \in orderings({[id |-> n, topic |-> ss[n].topic, link |-> hs[ss[n].headline_id].link,
                          published_date |-> hs[ss[n].headline_id].published] :
                            n \in {k \in DOMAIN ss : created_within(ss[k].created_at, now, hours)}})}

\* when the stored summaries were created: just before the window, at its
\* first instant, just before the call
CreatedAt == {0 - DigestHours * SecondsPerHour - 1, 0 - DigestHours * SecondsPerHour, 0 - 1}
StoredTopics == {"Automotive", "General Retail", None}

InitSpecDigest ==
    /\ InitDedupIdle /\ InitFnIdle /\ InitRLIdle /\ InitFetchIdle
    /\ InitSaveIdle /\ InitDigestIdle /\ InitAppIdle /\ InitSummIdle
    /\ processing_log = <<>> /\ db_lock = 0 /\ tx = EmptyTx /\ faults = 0
    /\ \E n \in 0..MaxSummaries :
          /\ headlines = [i \in 1..n |->
                [link |-> <<"headline", i>>,
                 published |-> IF i = 2 THEN OldDate ELSE RecentDate, by |-> <<0, 0>>]]
          /\ summaries \in {[k \in 1..n |-> [headline_id |-> k, topic |-> f[k][1],
                                              created_at |-> f[k][2], by |-> <<0, 0>>]] :
                                f \in [1..n -> StoredTopics \X CreatedAt]}

\* send_daily_digest up to the branch on "if not summaries"
send_daily_digest_begin ==
    /\ pcD = "idle"
    /\ \E r \in get_recent_summaries(summaries, headlines, clock, DigestHours) :
          /\ recent' = r
          /\ pcD' = IF r = <<>> THEN "log_skipped" ELSE "send"
    /\ UNCHANGED <<mail_log, digest_ret>>
    /\ UNCHANGED <<pureVars, appVars, rlVars, fetchVars, dbVars, saveVars, summVars>>

\* success = self.email_sender.send_email(subject, body_text, body_html):
\* True, or False on any error of the mail service
digest_send_email ==
    /\ pcD = "send"
    /\ \E success \in BOOLEAN :
          /\ mail_log' = Append(mail_log, [groups |-> group_by_topic(recent), success |-> success])
          /\ pcD' = IF success THEN "log_success" ELSE "log_failure"
    /\ UNCHANGED <<recent, digest_ret>>
    /\ UNCHANGED <<pureVars, appVars, rlVars, fetchVars, dbVars, saveVars, summVars>>

\* the status and the items count of the row, per position
digest_status(pc) ==
    CASE pc = "log_skipped" -> "skipped"
      [] pc = "log_success" -> "success"
      [] OTHER -> "failure"
digest_items(pc, summs) == IF pc = "log_skipped" THEN 0 ELSE Len(summs)
\* mutant: nothing to send is reported as a failure
digest_returns_sent_only(pc) == IF pc = "log_success" THEN "True" ELSE "False"

\* "return True" after skipping, "return success" after sending
digest_returns(pc) == IF pc \in {"log_skipped", "log_success"} THEN "True" ELSE "False"

\* _log_operation: INSERT INTO processing_log and commit
digest_log_operation ==
    /\ pcD \in {"log_skipped", "log_success", "log_failure"}
    /\ db_lock = 0
    /\ processing_log' = Append(processing_log,
            [operation_type |-> "email", status |-> digest_status(pcD),
             message |-> 0, items_processed |-> digest_items(pcD, recent),
             by |-> <<Mailer, 1>>])
    /\ digest_ret' = digest_returns(pcD)
    /\ pcD' = "done"
    /\ UNCHANGED <<recent, mail_log>>
    /\ UNCHANGED <<headlines, summaries, db_lock, tx, faults>>
    /\ UNCHANGED <<pureVars, appVars, rlVars, fetchVars, saveVars, summVars>>

\* _log_operation: the INSERT or the commit raises; the except clause logs
\* the error and the call returns normally
digest_log_error ==
    /\ pcD \in {"log_skipped", "log_success", "log_failure"}
    /\ faults < MaxFaults
    /\ faults' = faults + 1
    /\ digest_ret' = digest_returns(pcD)
    /\ pcD' = "done"
    /\ UNCHANGED <<recent, mail_log>>
    /\ UNCHANGED <<headlines, summaries, processing_log, db_lock, tx>>
    /\ UNCHANGED <<pureVars, appVars, rlVars, fetchVars, saveVars, summVars>>

NextDigest ==
    \/ send_daily_digest_begin
    \/ digest_send_email
    \/ digest_log_operation
    \/ digest_log_error

SpecDigest == InitSpecDigest /\ [][NextDigest]_vars

(***************************************************************************)
(* SpecJobs: one invocation of each scheduled job of app.py, overlapping.  *)
(* run_scraping_and_summarization calls scrape_news and                    *)
(* summarize_new_headlines as caller 1, run_daily_digest calls             *)
(* send_daily_digest; both log through log_job_execution.                  *)
(***************************************************************************)
DigestJob == "daily_digest"
ScrapeJob == "scraping_summarization"

\* the connection a job's rows are written through
JobCaller(j) == IF j = DigestJob THEN Mailer ELSE 1

\* str(e) of the exceptions a job body may raise
SqliteError == "sqlite3.OperationalError"
OpenAIError == "openai.OpenAIError"

\* mutant: the error row carries a fixed text
job_message_fixed(j, status, e) ==
    CASE status = "started" -> "initiated"
      [] status = "completed" -> "completed successfully"
      [] status = "failed" -> "failed to send"
      [] OTHER -> "job failed"

\* the message argument of log_job_execution, per status
job_message(j, status, e) ==
    CASE status = "started" -> "initiated"
      [] status = "completed" -> "completed successfully"
      [] status = "failed" -> "failed to send"
      [] OTHER -> e

\* log_job_execution: INSERT INTO processing_log and commit
log_job_execution(j, status, message) ==
    /\ db_lock = 0
    /\ processing_log' = Append(processing_log,
            [operation_type |-> j, status |-> status, message |-> message,
             items_processed |-> DefaultItemsProcessed, by |-> <<JobCaller(j), 1>>])
    /\ job_calls' = [job_calls EXCEPT ![j] = Append(@, [status |-> status, committed |-> TRUE])]
    /\ UNCHANGED <<headlines, summaries, db_lock, tx, faults>>

\* log_job_execution: connecting, the INSERT or the commit raises; the except
\* clause logs the error and the call returns normally
log_job_execution_error(j, status) ==
    /\ faults < MaxFaults
    /\ faults' = faults + 1
    /\ job_calls' = [job_calls EXCEPT ![j] = Append(@, [status |-> status, committed |-> FALSE])]
    /\ UNCHANGED <<headlines, summaries, processing_log, db_lock, tx>>

jobFrame == <<pureVars, digestVars, sideVars, rlVars, fetchVars, saveVars, summVars>>

\* mutant: the body is entered with no call of log_job_execution
job_started_late(j) ==
    /\ pcJ[j] = "idle"
    /\ pcJ' = [pcJ EXCEPT ![j] = "body"]
    /\ UNCHANGED <<job_err, job_calls, webVars>>
    /\ UNCHANGED <<dbVars, jobFrame>>

\* both jobs: log_job_execution(job_id, "started", ...) ahead of the try
job_started(j) ==
    /\ pcJ[j] = "idle"
    /\ log_job_execution(j, "started", job_message(j, "started", None))
    /\ pcJ' = [pcJ EXCEPT ![j] = "body"]
    /\ UNCHANGED <<job_err, webVars>>
    /\ UNCHANGED jobFrame

job_started_unlogged(j) ==
    /\ pcJ[j] = "idle"
    /\ log_job_execution_error(j, "started")
    /\ pcJ' = [pcJ EXCEPT ![j] = "body"]
    /\ UNCHANGED <<job_err, webVars>>
    /\ UNCHANGED jobFrame

\* the position after a statement of the try block raised e
job_raise(j, e) ==
    /\ pcJ' = [pcJ EXCEPT ![j] = "log_error"]
    /\ job_err' = [job_err EXCEPT ![j] = e]
    /\ UNCHANGED <<job_calls, webVars>>

job_goto(j, pc) ==
    /\ pcJ' = [pcJ EXCEPT ![j] = pc]
    /\ UNCHANGED <<job_err, job_calls, webVars>>

\* run_daily_digest: digest.send_daily_digest() is running
in_digest == pcJ[DigestJob] = "body"

\* the SELECT of _get_recent_summaries raises; nothing in send_daily_digest
\* catches it
job_digest_raises ==
    /\ in_digest /\ pcD = "idle"
    /\ job_raise(DigestJob, SqliteError)
    /\ UNCHANGED <<dbVars, jobFrame>>

\* "if success: ... else: ..." of run_daily_digest
job_after_digest(success) == IF success = "True" THEN "log_completed" ELSE "log_failed"
job_digest_returned ==
    /\ in_digest /\ pcD = "done"
    /\ job_goto(DigestJob, job_after_digest(digest_ret))
    /\ UNCHANGED <<dbVars, jobFrame>>

\* run_scraping_and_summarization: scraper.scrape_news(hours_back=3)
in_scrape == pcJ[ScrapeJob] = "body"

\* what the keyword loop of the job's scrape_news may hand on
JobBatches == {<<>>, <<Entry("b", RecentDate, Keywords[1])>>}

job_scrape_news ==
    /\ in_scrape /\ pcS[1] = "idle"
    /\ \E all \in JobBatches : begin_save(1, all)
    /\ UNCHANGED <<dbVars, notStore>>

\* _save_articles raised inside its except clause: scrape_news raises
job_scrape_raised ==
    /\ in_scrape /\ pcS[1] = "raised"
    /\ job_raise(ScrapeJob, SqliteError)
    /\ UNCHANGED <<dbVars, jobFrame>>

\* summarizer = Summarizer()
job_summarizer ==
    /\ in_scrape /\ pcS[1] = "done"
    /\ job_goto(ScrapeJob, "summarize")
    /\ UNCHANGED <<dbVars, jobFrame>>

\* Summarizer() raises: OpenAI(api_key=...) finds no key
job_summarizer_raises ==
    /\ in_scrape /\ pcS[1] = "done"
    /\ job_raise(ScrapeJob, OpenAIError)
    /\ UNCHANGED <<dbVars, jobFrame>>

\* summarizer.summarize_new_headlines()
in_summarize == pcJ[ScrapeJob] = "summarize"

\* log_job_execution(job_id, "completed", message) follows the return of
\* summarize_new_headlines at once
job_summarize_returned ==
    /\ in_summarize /\ run_no[1] = 1 /\ pcM[1] = "done"
    /\ job_goto(ScrapeJob, "log_completed")
    /\ UNCHANGED <<dbVars, jobFrame>>

\* the status of the row written at the end of the job
job_status(pc) ==
    CASE pc = "log_completed" -> "completed"
      [] pc = "log_failed" -> "failed"
      [] OTHER -> "error"

job_finished(j) ==
    /\ pcJ[j] \in {"log_completed", "log_failed", "log_error"}
    /\ log_job_execution(j, job_status(pcJ[j]), job_message(j, job_status(pcJ[j]), job_err[j]))
    /\ pcJ' = [pcJ EXCEPT ![j] = "returned"]
    /\ UNCHANGED <<job_err, webVars>>
    /\ UNCHANGED jobFrame

job_finished_unlogged(j) ==
    /\ pcJ[j] \in {"log_completed", "log_failed", "log_error"}
    /\ log_job_execution_error(j, job_status(pcJ[j]))
    /\ pcJ' = [pcJ EXCEPT ![j] = "returned"]
    /\ UNCHANGED <<job_err, webVars>>
    /\ UNCHANGED jobFrame

\* a summary an earlier run stored for the first headline
StoredSummary == [headline_id |-> 1, topic |-> "Automotive", created_at |-> 0 - 1, by |-> <<0, 0>>]

InitSpecJobs ==
    /\ InitDedupIdle /\ InitFnIdle /\ InitRLIdle /\ InitFetchIdle
    /\ InitSaveIdle /\ InitDigestIdle /\ InitAppIdle /\ InitSummIdle
    /\ processing_log = <<>> /\ db_lock = 0 /\ tx = EmptyTx /\ faults = 0
    /\ \E n \in 0..1 :
          /\ headlines = SubSeq(SummRows, 1, n)
          /\ summaries \in {SubSeq(<<StoredSummary>>, 1, m) : m \in 0..n}

NextJobs ==
    \/ \E j \in Jobs : job_started(j)
    \/ \E j \in Jobs : job_started_unlogged(j)
    \/ in_digest /\ send_daily_digest_begin
    \/ in_digest /\ digest_send_email
    \/ in_digest /\ digest_log_operation
    \/ in_digest /\ digest_log_error
    \/ job_digest_raises
    \/ job_digest_returned
    \/ job_scrape_news
    \/ in_scrape /\ save_insert(1)
    \/ in_scrape /\ save_commit_articles(1)
    \/ in_scrape /\ save_log_success(1)
    \/ in_scrape /\ save_commit_log(1)
    \/ in_scrape /\ save_error_in_try(1)
    \/ in_scrape /\ save_rollback(1)
    \/ in_scrape /\ save_log_failure(1)
    \/ in_scrape /\ save_commit_failure(1)
    \/ in_scrape /\ save_error_in_handler(1)
    \/ job_scrape_raised
    \/ job_summarizer
    \/ job_summarizer_raises
    \/ in_summarize /\ run_no[1] = 0 /\ summarize_select(1)
    \/ in_summarize /\ summarize_generate_ok(1)
    \/ in_summarize /\ summarize_generate_nothing(1)
    \/ in_summarize /\ save_summary_insert(1)
    \/ in_summarize /\ save_summary_commit(1)
    \/ in_summarize /\ save_summary_error(1)
    \/ in_summarize /\ log_operation_insert(1)
    \/ in_summarize /\ log_operation_commit(1)
    \/ in_summarize /\ log_operation_error(1)
    \/ job_summarize_returned
    \/ \E j \in Jobs : job_finished(j)
    \/ \E j \in Jobs : job_finished_unlogged(j)

SpecJobs == InitSpecJobs /\ [][NextJobs]_vars

(***************************************************************************)
(* SpecRefresh: one POST /refresh, served as caller 2, for every           *)
(* configuration of the API token and every kind of Authorization header.  *)
(***************************************************************************)
Secret == <<"s", "3">>
\* f'Bearer {token}'
Bearer(token) == <<"B", "e", "a", "r", "e", "r", " ">> \o token

\* Config.API_TOKEN: unset, set to the empty text, set
Tokens == {Absent, Text(<<>>), Text(Secret)}

\* request.headers.get('Authorization'): no header, an empty one, the right
\* one, the bare token, another token, another spelling of the scheme, a
\* prefix of the right one, the right one with a trailing blank
Authorizations ==
    {Absent, Text(<<>>), Text(Bearer(Secret)), Text(Secret), Text(Bearer(<<"s">>)),
     Text(<<"b", "e", "a", "r", "e", "r", " ">> \o Secret), Text(Bearer(<<>>)),
     Text(Bearer(Secret) \o <<" ">>)}

\* mutant: only a missing header is turned away
refresh_rejects_absent(cfg, token) == truthy(cfg) /\ ~truthy(token)

\* "if Config.API_TOKEN: ... if not token or token != f'Bearer {Config.API_TOKEN}'"
refresh_rejects(cfg, token) ==
    truthy(cfg) /\ (~truthy(token) \/ token.text # Bearer(cfg.text))

webFrame == <<pureVars, digestVars, pcJ, job_err, job_calls, sideVars, rlVars, fetchVars>>

\* a POST /refresh arrives
refresh_receive ==
    /\ pcR = "idle"
    /\ \E h \in Authorizations : request' = [received |-> TRUE, Authorization |-> h]
    /\ pcR' = "auth"
    /\ UNCHANGED <<API_TOKEN, response>>
    /\ UNCHANGED <<webFrame, dbVars, saveVars, summVars>>

\* return jsonify({'error': 'Unauthorized'}), 401
refresh_unauthorized ==
    /\ pcR = "auth"
    /\ refresh_rejects(API_TOKEN, request.Authorization)
    /\ response' = [status |-> 401, summaries_created |-> 0]
    /\ pcR' = "done"
    /\ UNCHANGED <<API_TOKEN, request>>
    /\ UNCHANGED <<webFrame, dbVars, saveVars, summVars>>

\* the check lets the request through to the try block
refresh_authorized ==
    /\ pcR = "auth"
    /\ ~refresh_rejects(API_TOKEN, request.Authorization)
    /\ pcR' = "scrape"
    /\ UNCHANGED <<API_TOKEN, request, response>>
    /\ UNCHANGED <<webFrame, dbVars, saveVars, summVars>>

refresh_goto(pc) ==
    /\ pcR' = pc
    /\ UNCHANGED <<API_TOKEN, request, response>>
    /\ UNCHANGED <<webFrame, dbVars, saveVars, summVars>>

\* the except clause: return jsonify({'error': str(e)}), 500
refresh_fails ==
    /\ response' = [status |-> 500, summaries_created |-> 0]
    /\ pcR' = "done"
    /\ UNCHANGED <<API_TOKEN, request>>
    /\ UNCHANGED <<webFrame, dbVars, saveVars, summVars>>

\* articles = scraper.scrape_news(hours_back=24)
in_refresh_scrape == pcR = "scrape"

refresh_scrape_news ==
    /\ in_refresh_scrape /\ pcS[2] = "idle"
    /\ \E all \in JobBatches : begin_save(2, all)
    /\ UNCHANGED <<dbVars, notStore>>

refresh_scrape_raised == in_refresh_scrape /\ pcS[2] = "raised" /\ refresh_fails

\* summarizer = Summarizer()
refresh_summarizer == in_refresh_scrape /\ pcS[2] = "done" /\ refresh_goto("summarize")
refresh_summarizer_raises == in_refresh_scrape /\ pcS[2] = "done" /\ refresh_fails

\* summarized_count = summarizer.summarize_new_headlines()
in_refresh_summarize == pcR = "summarize"

\* return jsonify({'success': True, ..., 'summaries_created': summarized_count})
refresh_returns ==
    /\ in_refresh_summarize /\ run_no[2] = 1 /\ pcM[2] = "done"
    /\ response' = [status |-> 200, summaries_created |-> summ_ret[2].value]
    /\ pcR' = "done"
    /\ UNCHANGED <<API_TOKEN, request>>
    /\ UNCHANGED <<webFrame, dbVars, saveVars, summVars>>

InitSpecRefresh ==
    /\ InitDedupIdle /\ InitFnIdle /\ InitRLIdle /\ InitFetchIdle /\ InitDBIdle
    /\ InitSaveIdle /\ InitDigestIdle /\ InitSummIdle
    /\ pcJ = [j \in Jobs |-> "idle"]
    /\ job_err = [j \in Jobs |-> None]
    /\ job_calls = [j \in Jobs |-> <<>>]
    /\ pcR = "idle" /\ request = NoRequest /\ response = Pending
    /\ InitSideIdle
    /\ API_TOKEN \in Tokens
    /\ headlines \in {SubSeq(SummRows, 1, n) : n \in 0..1}

NextRefresh ==
    \/ refresh_receive
    \/ refresh_unauthorized
    \/ refresh_authorized
    \/ refresh_scrape_news
    \/ in_refresh_scrape /\ save_insert(2)
    \/ in_refresh_scrape /\ save_commit_articles(2)
    \/ in_refresh_scrape /\ save_log_success(2)
    \/ in_refresh_scrape /\ save_commit_log(2)
    \/ in_refresh_scrape /\ save_error_in_try(2)
    \/ in_refresh_scrape /\ save_rollback(2)
    \/ in_refresh_scrape /\ save_log_failure(2)
    \/ in_refresh_scrape /\ save_commit_failure(2)
    \/ in_refresh_scrape /\ save_error_in_handler(2)
    \/ refresh_scrape_raised
    \/ refresh_summarizer
    \/ refresh_summarizer_raises
    \/ in_refresh_summarize /\ run_no[2] = 0 /\ summarize_select(2)
    \/ in_refresh_summarize /\ summarize_generate_ok(2)
    \/ in_refresh_summarize /\ summarize_generate_nothing(2)
    \/ in_refresh_summarize /\ save_summary_insert(2)
    \/ in_refresh_summarize /\ save_summary_commit(2)
    \/ in_refresh_summarize /\ save_summary_error(2)
    \/ in_refresh_summarize /\ log_operation_insert(2)
    \/ in_refresh_summarize /\ log_operation_commit(2)
    \/ in_refresh_summarize /\ log_operation_error(2)
    \/ refresh_returns

SpecRefresh == InitSpecRefresh /\ [][NextRefresh]_vars

(***************************************************************************)
(* SpecRender: the two bodies send_daily_digest builds from one grouping.  *)
(* A body is the sequence of the lines or parts the generator appends; an  *)
(* entry's summary text and published date are named by its link.          *)
(***************************************************************************)
Line(kind, label, n, link) == [kind |-> kind, label |-> label, n |-> n, link |-> link]
Fixed(kind) == Line(kind, <<>>, 0, "")

\* str.upper() on code points
upper(codes) == [i \in DOMAIN codes |-> IF codes[i] \in 97..122 THEN codes[i] - 32 ELSE codes[i]]

\* sum(len(summaries) for summaries in grouped_summaries.values())
RECURSIVE total_count(_)
total_count(grouped) ==
    IF grouped = <<>> THEN 0 ELSE Len(Head(grouped)[2]) + total_count(Tail(grouped))

\* "for summary in summaries" of _generate_text_email
RECURSIVE text_items(_)
text_items(summs) ==
    IF summs = <<>> THEN <<>>
    ELSE <<Line("bullet", <<>>, 0, Head(summs).link),
           Line("Published", <<>>, 0, Head(summs).link),
           Line("Read more", <<>>, 0, Head(summs).link)>> \o text_items(Tail(summs))

\* mutant: only the first summary of a group is written
text_group_first_only(topic, summs) ==
    <<Line("topic", upper(ord(topic)), Len(summs), ""), Fixed("rule")>>
        \o text_items(SubSeq(summs, 1, 1)) \o <<Fixed("")>>

\* one iteration of "for topic, summaries in grouped_summaries.items()"
text_group(topic, summs) ==
    <<Line("topic", upper(ord(topic)), Len(summs), ""), Fixed("rule")>>
        \o text_items(summs) \o <<Fixed("")>>

RECURSIVE text_groups(_)
text_groups(grouped) ==
    IF grouped = <<>> THEN <<>>
    ELSE text_group(Head(grouped)[1], Head(grouped)[2]) \o text_groups(Tail(grouped))

\* DailyDigest._generate_text_email: the list lines
generate_text_email(grouped) ==
    <<Fixed("title"), Fixed("date"), Fixed("rule"), Fixed(""),
      Line("includes", <<>>, total_count(grouped), ""),
      Line("categories", <<>>, Len(grouped), ""), Fixed("")>>
        \o text_groups(grouped)
        \o <<Fixed("rule"), Fixed("footer"), Fixed("footer")>>

\* "for summary in summaries" of _generate_html_email
RECURSIVE html_items(_)
html_items(summs) ==
    IF summs = <<>> THEN <<>>
    ELSE <<Fixed("<div class=summary>"),
           Line("<p>", <<>>, 0, Head(summs).link),
           Fixed("<div class=meta>"),
           Line("Published", <<>>, 0, Head(summs).link),
           Line("<a href>", <<>>, 0, Head(summs).link),
           Fixed("</div>"), Fixed("</div>")>> \o html_items(Tail(summs))

RECURSIVE html_groups(_)
html_groups(grouped) ==
    IF grouped = <<>> THEN <<>>
    ELSE <<Line("<h2>", ord(Head(grouped)[1]), Len(Head(grouped)[2]), "")>>
            \o html_items(Head(grouped)[2]) \o html_groups(Tail(grouped))

\* DailyDigest._generate_html_email: the list html_parts
generate_html_email(grouped) ==
    <<Fixed("<html>"), Fixed("<h1>"),
      Line("includes", <<>>, total_count(grouped), ""),
      Line("categories", <<>>, Len(grouped), "")>>
        \o html_groups(grouped)
        \o <<Fixed("footer")>>

\* send_daily_digest from _group_by_topic to the two generated bodies
call_generate_emails ==
    /\ fn_pc = "call"
    /\ fn_ret' = [grouped |-> group_by_topic(fn_arg),
                  body_text |-> generate_text_email(group_by_topic(fn_arg)),
                  body_html |-> generate_html_email(group_by_topic(fn_arg))]
    /\ fn_pc' = "ret"
    /\ UNCHANGED fn_arg
    /\ UNCHANGED <<ddVars, digestVars, appVars, rlVars, fetchVars, dbVars, saveVars, summVars>>

NextRender == call_generate_emails

SpecRender == InitSpecGroup /\ [][NextRender]_vars

(***************************************************************************)
(* SpecPipeline: scrape_news, then summarize_new_headlines, then           *)
(* send_daily_digest, one after the other on an empty store, with no       *)
(* failing store statement.                                                *)
(***************************************************************************)
\* scrape_news has returned and summarize_new_headlines is called once
ingested == pcF = "returned"
\* summarize_new_headlines has returned and send_daily_digest is called
summarized == pcF = "returned" /\ run_no[1] = 1 /\ pcM[1] = "done"

InitSpecPipeline ==
    /\ InitDedupIdle /\ InitFnIdle /\ InitRLIdle /\ InitFetch /\ InitDBIdle
    /\ InitSaveIdle /\ InitDigestIdle /\ InitAppIdle /\ InitSummIdle
    /\ headlines = <<>>

NextPipeline ==
    \/ scrape_news_begin
    \/ wait_if_needed_check
    \/ wait_if_needed_sleep
    \/ fetch_response_ok
    \/ fetch_request_exception
    \/ fetch_unexpected_exception
    \/ fetch_backoff
    \/ scrape_news_save
    \/ save_insert(1)
    \/ save_commit_articles(1)
    \/ save_log_success(1)
    \/ save_commit_log(1)
    \/ scrape_news_return
    \/ ingested /\ run_no[1] = 0 /\ summarize_select(1)
    \/ ingested /\ summarize_generate_ok(1)
    \/ ingested /\ summarize_generate_nothing(1)
    \/ ingested /\ save_summary_insert(1)
    \/ ingested /\ save_summary_commit(1)
    \/ ingested /\ log_operation_insert(1)
    \/ ingested /\ log_operation_commit(1)
    \/ summarized /\ send_daily_digest_begin
    \/ summarized /\ digest_send_email
    \/ summarized /\ digest_log_operation

SpecPipeline == InitSpecPipeline /\ [][NextPipeline]_vars

(***************************************************************************)
(* SpecScrapers: the feed requests of the process.  Each ingest call, of   *)
(* the scheduled job (caller 1) or of refresh (caller 2), constructs its   *)
(* own NewsScraper and with it its own RateLimiter; _fetch_rss_feed calls  *)
(* wait_if_needed and add_request ahead of every request.  Only the calls  *)
(* of the limiter and the passing of time are kept of a call.              *)
(***************************************************************************)
scrapersFrame == <<pureVars, digestVars, pcJ, job_err, job_calls, webVars, fetchVars,
                   dbVars, summVars, requests, rl_check, ledgerVars, schedVars,
                   pcS, articles, art_idx, saved_count, save_ret>>

\* scraper = NewsScraper(): self.rate_limiter = RateLimiter(...), then the
\* first keyword's fetch reaches wait_if_needed
new_scraper(p) ==
    /\ pcL[p] \in {"idle", "done"}
    /\ call_no[1] + call_no[2] < MaxCalls
    /\ Len(issued[FeedDomain]) < MaxIssued
    /\ limiters' = [limiters EXCEPT ![p] = [d \in {FeedDomain} |-> <<>>]]
    /\ pcL' = [pcL EXCEPT ![p] = "gate"]
    /\ call_no' = [call_no EXCEPT ![p] = @ + 1]
    /\ UNCHANGED <<clock, issued>>
    /\ UNCHANGED scrapersFrame

\* wait_if_needed: one evaluation of "while not self.can_request(domain)"
scraper_can_request(p) ==
    /\ pcL[p] = "gate"
    /\ limiters' = [limiters EXCEPT ![p][FeedDomain] = purge(@, clock)]
    /\ pcL' = [pcL EXCEPT ![p] =
            IF under_limit(purge(limiters[p][FeedDomain], clock)) THEN "request" ELSE "poll_sleep"]
    /\ UNCHANGED <<clock, issued, call_no>>
    /\ UNCHANGED scrapersFrame

\* mutant: the sleep returns with no time gone by
scraper_sleep_no_time(p) ==
    /\ pcL[p] = "poll_sleep"
    /\ pcL' = [pcL EXCEPT ![p] = "gate"]
    /\ UNCHANGED <<clock, limiters, issued, call_no>>
    /\ UNCHANGED scrapersFrame

\* wait_if_needed: time.sleep(1)
scraper_sleep(p) ==
    /\ pcL[p] = "poll_sleep"
    /\ clock' = clock + 1
    /\ pcL' = [pcL EXCEPT ![p] = "gate"]
    /\ UNCHANGED <<limiters, issued, call_no>>
    /\ UNCHANGED scrapersFrame

\* self.rate_limiter.add_request(domain) and the request; another attempt or
\* keyword follows, or the loop is over
scraper_add_request(p) ==
    /\ pcL[p] = "request"
    /\ limiters' = [limiters EXCEPT ![p][FeedDomain] = Append(@, clock)]
    /\ issued' = [issued EXCEPT ![FeedDomain] = Append(@, clock)]
    /\ \E more \in BOOLEAN :
          pcL' = [pcL EXCEPT ![p] =
                    IF more /\ Len(issued[FeedDomain]) + 1 < MaxIssued THEN "gate" ELSE "done"]
    /\ UNCHANGED <<clock, call_no>>
    /\ UNCHANGED scrapersFrame

InitSpecScrapers ==
    /\ InitDedupIdle /\ InitFnIdle /\ InitRLIdle /\ InitFetchIdle /\ InitDBIdle /\ headlines = <<>>
    /\ InitSaveIdle /\ InitDigestIdle /\ InitAppIdle /\ InitSummIdle

NextScrapers ==
    \E p \in Procs :
        \/ new_scraper(p)
        \/ scraper_can_request(p)
        \/ scraper_sleep(p)
        \/ scraper_add_request(p)

SpecScrapers == InitSpecScrapers /\ [][NextScrapers]_vars

\* a thread that is inside wait_if_needed keeps running: its check is
\* evaluated and its sleep returns
SpecScrapersFair ==
    /\ SpecScrapers
    /\ \A p \in Procs : WF_vars(scraper_can_request(p)) /\ WF_vars(scraper_sleep(p))

(***************************************************************************)
(* CostTracker and the ledger file: the Summarizers of the scheduled job   *)
(* and of the refresh route, each with a CostTracker of its own            *)
(***************************************************************************)
MaxDays == 2              \* calendar dates of a SpecLedger run

\* CostTracker.load_costs: json.load of the file, or the empty ledger
load_costs(file) == IF file = NoFile THEN EmptyCosts ELSE file

\* self.costs['daily_costs'][day], as add_usage finds or creates it
day_bucket(c, day) ==
    IF day \in DOMAIN c.daily_costs
    THEN c.daily_costs[day]
    ELSE [input_tokens |-> 0, output_tokens |-> 0]

\* mutant: the totals are updated, the day's bucket is created but not added to
add_usage_totals_only(c, day, input, output) ==
    [total_input_tokens |-> c.total_input_tokens + input,
     total_output_tokens |-> c.total_output_tokens + output,
     daily_costs |-> [d \in DOMAIN c.daily_costs \cup {day} |-> day_bucket(c, d)]]

\* CostTracker.add_usage up to save_costs: self.costs after the totals and
\* the bucket of the current date were updated
CostTracker_add_usage(c, day, input, output) ==
    [total_input_tokens |-> c.total_input_tokens + input,
     total_output_tokens |-> c.total_output_tokens + output,
     daily_costs |-> [d \in DOMAIN c.daily_costs \cup {day} |->
        IF d = day
        THEN [input_tokens |-> day_bucket(c, day).input_tokens + input,
              output_tokens |-> day_bucket(c, day).output_tokens + output]
        ELSE c.daily_costs[d]]]

\* CostTracker.save_costs: open(cost_file, 'w') and json.dump(self.costs);
\* the file holds the whole ledger of the writer, or is left as it was when
\* open raised
save_costs(file, c, written) == IF written THEN c ELSE file

\* _generate_summary with its CostTracker: None when building the prompt,
\* the API call or add_usage raised (one try block, "except Exception")
generate_summary_tracked(content, reply, written) ==
    IF summary_responded(content, reply) /\ ~written
    THEN None
    ELSE generate_summary(content, reply)

ledgerFrame == <<pureVars, digestVars, pcJ, job_err, job_calls, webVars, limiterVars, schedVars,
                 rlVars, fetchVars, saveVars>>

\* Summarizer(): CostTracker() loads the ledger file (each caller runs once)
summarizer_init(p) ==
    /\ pcM[p] = "idle"
    /\ built[p] = 0
    /\ run_no[1] + run_no[2] < MaxRuns
    /\ tracker' = [tracker EXCEPT ![p] = load_costs(cost_file)]
    /\ built' = [built EXCEPT ![p] = @ + 1]
    /\ UNCHANGED <<cost_file, today, recorded, write_errors>>
    /\ UNCHANGED <<ledgerFrame, dbVars, summVars>>

\* the ledger after the summary-generation call of caller p was answered
\* (add_usage runs) or was not (add_usage is not reached)
ledger_after(p, reply, written) ==
    IF summary_responded(Content(p), reply)
    THEN /\ tracker' = [tracker EXCEPT ![p] =
                CostTracker_add_usage(@, today, prompt_tokens, completion_tokens)]
         /\ cost_file' = save_costs(cost_file,
                CostTracker_add_usage(tracker[p], today, prompt_tokens, completion_tokens),
                written)
         /\ recorded' = reported_after(recorded, TRUE)
         /\ write_errors' = IF written THEN write_errors ELSE write_errors + 1
    ELSE /\ written
         /\ UNCHANGED <<tracker, cost_file, recorded, write_errors>>

\* _summarize_headline: extract_content, the title fallback, and
\* _generate_summary (add_usage included) gave a text
tracked_generate_ok(p) ==
    /\ pcM[p] = "generate"
    /\ \E reply \in GenResults, written \in BOOLEAN :
          /\ written \/ write_errors = 0
          /\ ~not_summary(generate_summary_tracked(Content(p), reply, written))
          /\ summary' = [summary EXCEPT ![p] = generate_summary_tracked(Content(p), reply, written)]
          /\ costs' = [costs EXCEPT ![p] = costs_after_summary(@, Content(p), reply)]
          /\ reported' = [reported EXCEPT ![p] = reported_after(@, summary_responded(Content(p), reply))]
          /\ ledger_after(p, reply, written)
    /\ pcM' = [pcM EXCEPT ![p] = "save"]
    /\ UNCHANGED <<run_no, sel, world, sel_idx, summarized_count, processed, summ_ret>>
    /\ UNCHANGED <<built, today>>
    /\ UNCHANGED <<ledgerFrame, dbVars>>

\* _generate_summary gave None or an empty text: _summarize_headline
\* returns False
tracked_generate_nothing(p) ==
    /\ pcM[p] = "generate"
    /\ \E reply \in GenResults, written \in BOOLEAN :
          /\ written \/ write_errors = 0
          /\ not_summary(generate_summary_tracked(Content(p), reply, written))
          /\ processed' = [processed EXCEPT ![p] = Append(@, Outcome(p, reply, "no_summary"))]
          /\ costs' = [costs EXCEPT ![p] = costs_after_summary(@, Content(p), reply)]
          /\ reported' = [reported EXCEPT ![p] = reported_after(@, summary_responded(Content(p), reply))]
          /\ ledger_after(p, reply, written)
    /\ pcM' = [pcM EXCEPT ![p] = headline_failed_pc(p)]
    /\ sel_idx' = [sel_idx EXCEPT ![p] = @ + 1]
    /\ UNCHANGED <<run_no, sel, world, summary, summarized_count, summ_ret>>
    /\ UNCHANGED <<built, today>>
    /\ UNCHANGED <<ledgerFrame, dbVars>>

\* midnight: datetime.now().strftime('%Y-%m-%d') gives the next date
day_passes ==
    /\ today < MaxDays
    /\ today' = today + 1
    /\ UNCHANGED <<cost_file, tracker, built, recorded, write_errors>>
    /\ UNCHANGED <<ledgerFrame, dbVars, summVars>>

InitSpecLedger ==
    /\ InitDedupIdle /\ InitFnIdle /\ InitRLIdle /\ InitFetchIdle /\ InitDBIdle
    /\ InitSaveIdle /\ InitDigestIdle /\ InitAppIdle /\ InitSummIdle
    /\ headlines \in {SubSeq(SummRows, 1, n) : n \in 1..2}

NextLedger ==
    \/ day_passes
    \/ \E p \in Procs :
        \/ summarizer_init(p)
        \/ built[p] = run_no[p] + 1 /\ summarize_select(p)
        \/ tracked_generate_ok(p)
        \/ tracked_generate_nothing(p)
        \/ save_summary_insert(p)
        \/ save_summary_commit(p)
        \/ log_operation_insert(p)
        \/ log_operation_commit(p)

SpecLedger == InitSpecLedger /\ [][NextLedger]_vars

(***************************************************************************)
(* init_scheduler: the global scheduler, created under scheduler_lock      *)
(***************************************************************************)
\* mutant: the check for an existing scheduler never finds one
scheduler_exists_never(s) == FALSE

\* "if scheduler is not None"
scheduler_exists(s) == s # 0

\* BackgroundScheduler(): no jobs, not started
BackgroundScheduler == [jobs |-> <<>>, running |-> FALSE]

\* scheduler.add_job(..., id=id, replace_existing=True): a job of that id is
\* replaced, else the job is added
add_job(sch, id) ==
    IF \E i \in DOMAIN sch.jobs : sch.jobs[i] = id
    THEN sch
    ELSE [sch EXCEPT !.jobs = Append(@, id)]

schedFrame == <<pureVars, digestVars, pcJ, job_err, job_calls, webVars, limiterVars,
                ledgerVars, rlVars, fetchVars, dbVars, saveVars, summVars>>

\* init_scheduler is called and reaches "with scheduler_lock"
init_scheduler_call(t) ==
    /\ pcI[t] = "idle"
    /\ init_calls[t] < MaxInitCalls
    /\ pcI' = [pcI EXCEPT ![t] = "lock"]
    /\ init_calls' = [init_calls EXCEPT ![t] = @ + 1]
    /\ UNCHANGED <<scheduler, scheduler_lock, made, schedFrame>>

\* "with scheduler_lock": the lock is acquired once it is free
init_scheduler_enter(t) ==
    /\ pcI[t] = "lock"
    /\ scheduler_lock = 0
    /\ scheduler_lock' = t
    /\ pcI' = [pcI EXCEPT ![t] = "check"]
    /\ UNCHANGED <<scheduler, made, init_calls, schedFrame>>

\* "if scheduler is not None: return", the lock released on the way out
init_scheduler_existing(t) ==
    /\ pcI[t] = "check"
    /\ scheduler_exists(scheduler)
    /\ scheduler_lock' = 0
    /\ pcI' = [pcI EXCEPT ![t] = "idle"]
    /\ UNCHANGED <<scheduler, made, init_calls, schedFrame>>

\* scheduler = BackgroundScheduler()
init_scheduler_create(t) ==
    /\ pcI[t] = "check"
    /\ ~scheduler_exists(scheduler)
    /\ made' = Append(made, BackgroundScheduler)
    /\ scheduler' = Len(made) + 1
    /\ pcI' = [pcI EXCEPT ![t] = "add_digest"]
    /\ UNCHANGED <<scheduler_lock, init_calls, schedFrame>>

\* scheduler.add_job(func=run_daily_digest, ..., id='daily_digest')
init_scheduler_add_digest(t) ==
    /\ pcI[t] = "add_digest"
    /\ made' = [made EXCEPT ![scheduler] = add_job(@, "daily_digest")]
    /\ pcI' = [pcI EXCEPT ![t] = "add_scraping"]
    /\ UNCHANGED <<scheduler, scheduler_lock, init_calls, schedFrame>>

\* scheduler.add_job(func=run_scraping_and_summarization, ..., id='periodic_scraping')
init_scheduler_add_scraping(t) ==
    /\ pcI[t] = "add_scraping"
    /\ made' = [made EXCEPT ![scheduler] = add_job(@, "periodic_scraping")]
    /\ pcI' = [pcI EXCEPT ![t] = "start"]
    /\ UNCHANGED <<scheduler, scheduler_lock, init_calls, schedFrame>>

\* scheduler.start(), then the end of the with block
init_scheduler_start(t) ==
    /\ pcI[t] = "start"
    /\ made' = [made EXCEPT ![scheduler].running = TRUE]
    /\ scheduler_lock' = 0
    /\ pcI' = [pcI EXCEPT ![t] = "idle"]
    /\ UNCHANGED <<scheduler, init_calls, schedFrame>>

InitSpecScheduler ==
    /\ InitDedupIdle /\ InitFnIdle /\ InitRLIdle /\ InitFetchIdle /\ InitDBIdle
    /\ InitSaveIdle /\ InitDigestIdle /\ InitAppIdle /\ InitSummIdle
    /\ headlines = <<>>

NextScheduler ==
    \E t \in Threads :
        \/ init_scheduler_call(t)
        \/ init_scheduler_enter(t)
        \/ init_scheduler_existing(t)
        \/ init_scheduler_create(t)
        \/ init_scheduler_add_digest(t)
        \/ init_scheduler_add_scraping(t)
        \/ init_scheduler_start(t)

SpecScheduler == InitSpecScheduler /\ [][NextScheduler]_vars

(***************************************************************************)
(* summarize_new_headlines run after run by the periodic job, over a store *)
(* in which some headlines can never be summarized                         *)
(***************************************************************************)
\* a headline whose summary-generation call fails every time it is made
Failing(link) == link[1] = "rejected"

\* the store: n headlines, row 1 the most recent, the first k of them failing
RepeatRows(n, k) ==
    [i \in 1..n |->
        [link |-> <<IF i <= k THEN "rejected" ELSE "article", i>>,
         published |-> RecentDate - i, by |-> <<0, 0>>]]

RepeatLinks == {<<kind, i>> : kind \in {"rejected", "article"}, i \in 1..MaxRows}

repeat_generate_ok(p) == summarize_generate_ok(p) /\ ~Failing(Headline(p).link)

repeat_generate_nothing(p) == summarize_generate_nothing(p) /\ Failing(Headline(p).link)

\* the CronTrigger of periodic_scraping fires again after a run returned.
\* Of the finished run the model keeps the summaries only: its
\* processing_log rows and its return value are dropped, so that the states
\* of successive runs over the same store coincide.
run_again(p) ==
    /\ pcM[p] = "done"
    /\ pcM' = [pcM EXCEPT ![p] = "idle"]
    /\ run_no' = [run_no EXCEPT ![p] = 0]
    /\ summ_ret' = [summ_ret EXCEPT ![p] = [run |-> 0, outcome |-> None, value |-> 0]]
    /\ processing_log' = <<>>
    /\ UNCHANGED <<headlines, summaries, db_lock, tx, faults>>
    /\ UNCHANGED <<sel, world, ledger, sel_idx, summary, summarized_count, processed>>
    /\ UNCHANGED notSumm

InitSpecRepeat ==
    /\ InitDedupIdle /\ InitFnIdle /\ InitRLIdle /\ InitFetchIdle /\ InitDBIdle
    /\ InitSaveIdle /\ InitDigestIdle /\ InitAppIdle /\ InitSummLocals
    /\ pages = [l \in RepeatLinks |-> "text"]
    /\ classifier = [l \in RepeatLinks |-> Responded(<<Piece("Electronics & Gaming")>>)]
    /\ \E n \in MinRows..MaxRows :
       \E k \in {0, SelectLimit - 1, SelectLimit, SelectLimit + 1} :
          /\ k < n
          /\ headlines = RepeatRows(n, k)

\* the steps of a run in progress
repeat_run_step ==
    \/ repeat_generate_ok(JobCaller(ScrapeJob))
    \/ repeat_generate_nothing(JobCaller(ScrapeJob))
    \/ save_summary_insert(JobCaller(ScrapeJob))
    \/ save_summary_commit(JobCaller(ScrapeJob))
    \/ log_operation_insert(JobCaller(ScrapeJob))
    \/ log_operation_commit(JobCaller(ScrapeJob))

\* the trigger fires: a run starts
repeat_select(p) == pcM[p] = "idle" /\ summarize_select(p)

NextRepeat ==
    \/ repeat_select(JobCaller(ScrapeJob))
    \/ run_again(JobCaller(ScrapeJob))
    \/ repeat_run_step

SpecRepeat == InitSpecRepeat /\ [][NextRepeat]_vars

\* the trigger keeps firing and a run that was started keeps running.  The
\* weak fairness of repeat_select is written out: the action is enabled
\* exactly when the caller is idle.
SpecRepeatFair ==
    /\ SpecRepeat
    /\ WF_vars(run_again(JobCaller(ScrapeJob)))
    /\ WF_vars(repeat_run_step)
    /\ \/ []<>(pcM[JobCaller(ScrapeJob)] # "idle")
       \/ []<><<repeat_select(JobCaller(ScrapeJob))>>_vars

(***************************************************************************)
(* Properties                                                              *)
(***************************************************************************)
Count(S) == Cardinality(S)

\* C3: _deduplicate_articles returns the first occurrence of each distinct
\* link of its input, each link once, in input order.
FirstOccurrences(arts) ==
    {i \in DOMAIN arts : \A j \in 1..(i - 1) : arts[j].link # arts[i].link}

C3_DedupFirstOccurrence ==
    dd_pc = "ret" =>
        /\ \A i, j \in DOMAIN dd_out : i # j => dd_out[i].link # dd_out[j].link
        /\ \A i \in DOMAIN dd_in :
              Count({j \in DOMAIN dd_out : dd_out[j].link = dd_in[i].link}) = 1
        /\ Len(dd_out) = Count(FirstOccurrences(dd_in))
        /\ \A j \in DOMAIN dd_out :
              \E i \in FirstOccurrences(dd_in) :
                 /\ dd_out[j] = dd_in[i]
                 /\ Count({i2 \in FirstOccurrences(dd_in) : i2 <= i}) = j

\* an input with a repeated link, whose later copy differs from the kept one
C3_Witness ==
    /\ dd_pc = "ret"
    /\ Len(dd_in) = 3
    /\ Len(dd_out) = 2
    /\ dd_in[1].link = dd_in[3].link
    /\ dd_in[1] # dd_in[3]

\* C4: can_request(h) answers whether fewer than max_requests add_request(h)
\* calls lie in the trailing 60 seconds, and once the log was full it
\* answers true only when the oldest recorded timestamp is at least 60 s old.
InWindow(hist, now) == {i \in DOMAIN hist : hist[i] > now - WindowSeconds}

C4_RateLimiterWindow ==
    rl_check.domain # None =>
        /\ rl_check.result =
              (Count(InWindow(rl_check.history, rl_check.at)) < MAX_REQUESTS_PER_MINUTE)
        /\ (rl_check.result /\ Len(rl_check.before) >= MAX_REQUESTS_PER_MINUTE) =>
              /\ rl_check.before[1] <= rl_check.at - WindowSeconds
              /\ Len(rl_check.after) < Len(rl_check.before)

\* the log was full, its entries aged, and the check answered true again
C4_Witness ==
    /\ rl_check.domain # None
    /\ rl_check.result
    /\ Len(rl_check.before) = MAX_REQUESTS_PER_MINUTE
    /\ rl_check.before[1] = rl_check.at - WindowSeconds

\* ---- helpers over the histories of a scrape_news call
ReqIdx(k) == {i \in DOMAIN http_log : http_log[i].kw = k}
ReqsOf(k) == SelectSeq(http_log, LAMBDA r : r.kw = k)
OutcomesOf(k) == [i \in DOMAIN ReqsOf(k) |-> ReqsOf(k)[i].outcome]
SleepsOf(k) == SelectSeq(sleep_log, LAMBDA z : z.kw = k)
BackoffsOf(k) == SelectSeq(sleep_log, LAMBDA z : z.kw = k /\ z.kind = "backoff")
\* position in http_log of the n-th request of keyword k
NthReq(k, n) == CHOOSE i \in ReqIdx(k) : Count({j \in ReqIdx(k) : j <= i}) = n
FetchFinished(k) ==
    \/ kw_idx > k
    \/ pcF \in {"collect", "save", "returned", "raised"}

\* the entries with a link of every answered request, in request order
RECURSIVE OkEntries(_)
OkEntries(log) ==
    IF log = <<>> THEN <<>>
    ELSE (IF Head(log).outcome = "ok"
          THEN parse_entries(Head(log).feed, Head(log).at)
          ELSE <<>>) \o OkEntries(Tail(log))

\* the two backoff sleeps of keyword k: 1 s after its first request, 2 s
\* after its second
BackoffOneThenTwo(k) ==
    /\ Len(BackoffsOf(k)) = 2
    /\ BackoffsOf(k)[1].seconds = 1
    /\ BackoffsOf(k)[1].after = NthReq(k, 1)
    /\ BackoffsOf(k)[2].seconds = 2
    /\ BackoffsOf(k)[2].after = NthReq(k, 2)

\* C5: a fetch whose attempts 1 and 2 fail transiently and whose attempt 3
\* succeeds issues exactly 3 requests, sleeps 1 s after the first failure and
\* 2 s after the second, and returns the entries parsed from the third
\* response (all_articles is the concatenation of what the answered requests
\* carried).
C5_RetryThenSuccess ==
    \A k \in DOMAIN Keywords :
        (/\ FetchFinished(k)
         /\ Len(ReqsOf(k)) >= 3
         /\ OutcomesOf(k)[1] = "transient"
         /\ OutcomesOf(k)[2] = "transient"
         /\ OutcomesOf(k)[3] = "ok")
        => /\ Len(ReqsOf(k)) = 3
           /\ \A n \in 1..3 : ReqsOf(k)[n].attempt = n - 1
           /\ BackoffOneThenTwo(k)
           /\ all_articles = OkEntries(http_log)

C5_Witness ==
    /\ pcF = "returned"
    /\ OutcomesOf(1) = <<"transient", "transient", "ok">>
    /\ Len(ReqsOf(1)[3].feed) = 2
    /\ Len(all_articles) >= 1

\* C6: no fetch issues more than 3 requests; a fetch whose 3 attempts all fail
\* transiently sleeps 1 s and 2 s between them, does not sleep after the third
\* failure, and returns (an empty list) to scrape_news, which goes on.
C6_RetriesExhausted ==
    /\ \A k \in DOMAIN Keywords : Len(ReqsOf(k)) <= 3
    /\ pcF = "raised" => pcS[1] = "raised"
    /\ \A k \in DOMAIN Keywords :
          (FetchFinished(k) /\ OutcomesOf(k) = <<"transient", "transient", "transient">>)
          => /\ BackoffOneThenTwo(k)
             /\ \A i \in DOMAIN SleepsOf(k) : SleepsOf(k)[i].after < NthReq(k, 3)
             /\ all_articles = OkEntries(http_log)

C6_Witness ==
    /\ pcF = "returned"
    /\ OutcomesOf(2) = <<"transient", "transient", "transient">>
    /\ Len(ReqsOf(1)) = 1

\* ---- helpers over the store
CommittedLinks == {headlines[i].link : i \in DOMAIN headlines}
RowsBy(by) == {i \in DOMAIN headlines : headlines[i].by = by}
ScrapeLogBy(by) ==
    {i \in DOMAIN processing_log :
        processing_log[i].operation_type = "scrape" /\ processing_log[i].by = by}
SuccessLogged(by) ==
    \E i \in ScrapeLogBy(by) : processing_log[i].status = "success"
KeywordFailed(k) ==
    /\ Len(ReqsOf(k)) > 0
    /\ ReqsOf(k)[Len(ReqsOf(k))].outcome \in {"transient", "unexpected"}

\* C7: a keyword whose fetch fails does not end the ingest call: every keyword
\* is fetched, in keyword order, only a persistence failure makes scrape_news
\* raise, and when _save_articles logs success every in-window first
\* occurrence among the entries of the answered keywords is stored.
C7_KeywordFailureTolerated ==
    /\ \A i, j \in DOMAIN http_log : i < j => http_log[i].kw <= http_log[j].kw
    /\ pcF \in {"collect", "save", "returned"} =>
          \A k \in DOMAIN keywords : Len(ReqsOf(k)) > 0
    /\ faults = 0 => pcF # "raised"
    /\ (pcF = "returned" /\ SuccessLogged(<<1, 1>>)) =>
          LET got == OkEntries(http_log)
          IN  \A i \in FirstOccurrences(got) :
                 got[i].published >= clock - hours_back(1) * SecondsPerHour
                 => got[i].link \in CommittedLinks

\* the first keyword's fetch failed, the second one's entry was stored
C7_Witness ==
    /\ pcF = "returned"
    /\ KeywordFailed(1)
    /\ OutcomesOf(2) = <<"ok">>
    /\ \E i \in RowsBy(<<1, 1>>) : headlines[i].link = "b"
    /\ SuccessLogged(<<1, 1>>)

\* C1: no two stored Items share a link, whatever the interleaving of the
\* ingest calls, and every link of a batch that was saved is stored once.
C1_UniqueLinks ==
    /\ \A i, j \in DOMAIN headlines : i # j => headlines[i].link # headlines[j].link
    /\ \A p \in Procs :
          (pcS[p] = "done" /\ SuccessLogged(<<p, call_no[p]>>)) =>
             \A n \in DOMAIN articles[p] :
                Count({i \in DOMAIN headlines : headlines[i].link = articles[p][n].link}) = 1

\* both callers saved a batch holding the same link
C1_Witness ==
    /\ \A p \in Procs : pcS[p] = "done" /\ SuccessLogged(<<p, call_no[p]>>)
    /\ \E n \in DOMAIN articles[1], m \in DOMAIN articles[2] :
          articles[1][n].link = articles[2][m].link
    /\ Len(headlines) = 1

\* C9: a uniqueness conflict is swallowed for its entry alone: it never takes
\* _save_articles to its failure handler, the whole batch is stored once the
\* loop's commit is done, and saved_count and the success row's
\* items_processed count the rows this call inserted, conflicts excluded.
C9_ConflictSwallowed ==
    /\ faults = 0 =>
          \A p \in Procs : pcS[p] \notin {"rollback", "log_failure", "commit_failure", "raised"}
    /\ \A p \in Procs :
          (\/ pcS[p] \in {"log_success", "commit_log"}
           \/ pcS[p] = "done" /\ SuccessLogged(<<p, call_no[p]>>))
          => /\ \A n \in DOMAIN articles[p] : articles[p][n].link \in CommittedLinks
             /\ saved_count[p] = Count(RowsBy(<<p, call_no[p]>>))
    /\ \A i \in DOMAIN processing_log :
          (processing_log[i].operation_type = "scrape" /\ processing_log[i].status = "success")
          => processing_log[i].items_processed = Count(RowsBy(processing_log[i].by))

\* a batch of two whose first entry conflicts and whose second is inserted
C9_Witness ==
    \E p \in Procs :
        /\ pcS[p] = "done"
        /\ Len(articles[p]) = 2
        /\ articles[p][1].link \in {headlines[i].link : i \in DOMAIN headlines \ RowsBy(<<p, call_no[p]>>)}
        /\ \E i \in RowsBy(<<p, call_no[p]>>) : headlines[i].link = articles[p][2].link
        /\ \E i \in ScrapeLogBy(<<p, call_no[p]>>) :
              /\ processing_log[i].status = "success"
              /\ processing_log[i].items_processed = 1

\* C10: every finished ingest call has appended exactly one scrape row: a
\* success row counting the Items it persisted, or a failure row with none of
\* its Items stored.
C10_OneRunLogRow ==
    \A p \in Procs :
        pcS[p] \in {"done", "raised"} =>
            LET by == <<p, call_no[p]>>
            IN  /\ Count(ScrapeLogBy(by)) = 1
                /\ \A i \in ScrapeLogBy(by) :
                      /\ processing_log[i].status = "success" =>
                            processing_log[i].items_processed = Count(RowsBy(by))
                      /\ processing_log[i].status = "failure" => Count(RowsBy(by)) = 0

\* ---- helpers over summarize runs
AllSummaries == summaries \o tx.summaries
SummariesBy(by, id) ==
    {i \in DOMAIN AllSummaries :
        AllSummaries[i].by = by /\ AllSummaries[i].headline_id = id}
SavedOf(p) == {n \in DOMAIN processed[p] : processed[p][n].outcome = "saved"}

\* C8: a selected headline whose processing fails (no summary generated, or
\* saving it raised) gets no Summary from that run, the headlines after it
\* are still processed, and the run never ends by an exception: a finished
\* run has processed every selected headline, in order.
C8_ItemFailureIsolated ==
    \A p \in Procs :
        /\ pcM[p] # "raised"
        /\ summ_ret[p].outcome \in {None, "returned"}
        /\ \A n \in DOMAIN processed[p] :
              /\ n <= Len(sel[p]) /\ processed[p][n].id = sel[p][n]
              /\ Count(SummariesBy(<<p, run_no[p]>>, processed[p][n].id))
                    = IF processed[p][n].outcome = "saved" THEN 1 ELSE 0
        /\ pcM[p] \in {"log", "log_commit", "done"} =>
              /\ Len(processed[p]) = Len(sel[p])
              /\ summarized_count[p] = Count(SavedOf(p))
        /\ pcM[p] = "done" => summ_ret[p].value = summarized_count[p]

\* one run skipped a headline that gave no summary, the other one whose save
\* raised, and each went on to save the next headline
C8_Witness ==
    /\ \A p \in Procs : pcM[p] = "done" /\ Len(processed[p]) = 2
    /\ processed[1][1].outcome = "no_summary" /\ processed[1][2].outcome = "saved"
    /\ processed[2][1].outcome = "save_raised" /\ processed[2][2].outcome = "saved"

\* C2: no headline has two Summaries, overlapping summarize runs included.
C2_AtMostOneSummary ==
    \A i, j \in DOMAIN summaries :
        i # j => summaries[i].headline_id # summaries[j].headline_id

RECURSIVE SleptSeconds(_)
SleptSeconds(log) ==
    IF log = <<>> THEN 0 ELSE Head(log).seconds + SleptSeconds(Tail(log))

\* time.time() when scrape_news was called
CallTime == clock - SleptSeconds(sleep_log)

\* the oldest publish date scrape_news(hours_back) may keep
OldestKept(p) == CallTime - hours_back(p) * SecondsPerHour

Unsummarized == {i \in DOMAIN headlines : i \notin Summarized(summaries)}

\* C13: a run selects at most 50 headlines, none of which has a Summary;
\* it selects all of them when there are at most 50, and otherwise 50 of them
\* none older than any it leaves out; the list is in descending order of
\* publish date and holds no headline twice.
C13_SelectFiftyMostRecent ==
    \A p \in Procs :
        run_no[p] > 0 =>
            /\ Len(sel[p]) <= 50
            /\ Len(sel[p]) = Min(50, Count(Unsummarized))
            /\ \A n \in DOMAIN sel[p] : sel[p][n] \in Unsummarized
            /\ \A n, k \in DOMAIN sel[p] :
                  n < k => /\ sel[p][n] # sel[p][k]
                           /\ headlines[sel[p][n]].published >= headlines[sel[p][k]].published
            /\ \A i \in Unsummarized \ Range(sel[p]) :
                  \A n \in DOMAIN sel[p] :
                     headlines[i].published <= headlines[sel[p][n]].published

\* more than 50 headlines lacked a Summary, 50 were selected, and a
\* summarized headline is more recent than a selected one
C13_Witness ==
    \E p \in Procs :
        /\ run_no[p] > 0
        /\ Count(Unsummarized) > 50
        /\ Len(sel[p]) = 50
        /\ \E i \in Summarized(summaries) :
              headlines[i].published > headlines[sel[p][50]].published

\* C14: a headline whose content extraction failed or gave no text is
\* summarized from its title: when the API answered with a text the run went
\* on to _save_summary, and when that committed the headline has its Summary
\* from this run.
C14_TitleFallback ==
    \A p \in Procs :
        /\ \A n \in DOMAIN processed[p] :
              LET e == processed[p][n]
              IN  e.extracted \in {"", None} =>
                     /\ e.generated => e.outcome \in {"saved", "save_raised"}
                     /\ e.outcome = "saved" =>
                           Count(SummariesBy(<<p, run_no[p]>>, e.id)) = 1
        /\ pcM[p] \in {"generate", "save", "save_commit"} =>
              (extract_content(Headline(p).link) \in {"", None} => Content(p) = "title")

\* a headline whose extraction raised and one whose page had no text both
\* got their Summary
C14_Witness ==
    \E p \in Procs :
        /\ pcM[p] = "done" /\ Len(processed[p]) = 2
        /\ processed[p][1].extracted = None /\ processed[p][1].outcome = "saved"
        /\ processed[p][2].extracted = "" /\ processed[p][2].outcome = "saved"
        /\ \A n \in 1..2 : Count(SummariesBy(<<p, run_no[p]>>, processed[p][n].id)) = 1

\* C15: a reply of more than 40 words is returned (and so stored) as its
\* first 40 words, joined by single blanks, with the ellipsis appended to the
\* last of them; a reply of at most 40 words is returned as it came, less the
\* white space around it; no returned summary has more than 40 words.
C15_TruncatedToBudget ==
    fn_pc = "ret" =>
        LET words == split(fn_arg)
        IN  /\ Len(words) > 40 =>
                 /\ fn_ret = join(SubSeq(words, 1, 40)) \o <<Ellipsis>>
                 /\ \A i \in 1..39 : split(fn_ret)[i] = words[i]
                 /\ split(fn_ret)[40] = words[40] \o <<Ellipsis>>
            /\ Len(words) <= 40 =>
                 /\ fn_ret = str_strip(fn_arg)
                 /\ split(fn_ret) = words
            /\ Len(split(fn_ret)) <= 40

\* a reply of 41 words with double blanks was cut, one of 40 words was not
C15_Witness ==
    /\ fn_pc = "ret"
    /\ Len(split(fn_arg)) = 41
    /\ Len(fn_ret) < Len(fn_arg)
    /\ fn_ret[Len(fn_ret)] = Ellipsis

\* the Summary rows written by summarizer runs, committed or not yet
WrittenSummaries ==
    {r \in Range(summaries) \cup Range(tx.summaries) : r.by # <<0, 0>>}

\* the reply is exactly one of the labels once the white space around it is
\* stripped
ExactLabel(reply, label) ==
    reply.responded /\ str_strip(reply.content) = <<<<label, 0>>>>

\* C16: classify_topic gives one of the 10 labels for every reply of the
\* model: the label the reply spells out exactly, 'General Retail' for any
\* other text or when the call failed; so every Summary row a run writes
\* carries one of the labels, and whatever the reply, _save_summary gets to
\* its INSERT whenever the store lets it write.
C16_TopicAlwaysOneOfTen ==
    /\ Cardinality(Range(topics)) = 10
    /\ \A r \in WrittenSummaries :
          LET reply == classifier[headlines[r.headline_id].link]
          IN  /\ r.topic \in Range(topics)
              /\ \A i \in DOMAIN topics : ExactLabel(reply, topics[i]) => r.topic = topics[i]
              /\ (\A i \in DOMAIN topics : ~ExactLabel(reply, topics[i]))
                    => r.topic = "General Retail"
    /\ \A p \in Procs :
          (pcM[p] = "save" /\ db_lock \in {0, p}) => ENABLED save_summary_insert(p)

\* the classification call failed and the Summary was committed all the same,
\* under the catch-all label
C16_Witness ==
    \E n \in DOMAIN summaries :
        /\ summaries[n].by # <<0, 0>>
        /\ ~classifier[headlines[summaries[n].headline_id].link].responded
        /\ summaries[n].topic = "General Retail"
        /\ \E p \in Procs : \E k \in DOMAIN processed[p] :
              processed[p][k].id = summaries[n].headline_id /\ processed[p][k].outcome = "saved"

\* the summarize RunLog rows of one run
SummarizeLogBy(by) ==
    {i \in DOMAIN processing_log :
        processing_log[i].operation_type = "summarize" /\ processing_log[i].by = by}

\* C17: every finished invocation of summarize_new_headlines has appended
\* exactly one summarize row, with status success if the returned count is
\* greater than 0 and failure otherwise.
C17_OneSummarizeLogRow ==
    \A p \in Procs :
        pcM[p] = "done" =>
            LET by == <<p, run_no[p]>>
            IN  /\ Count(SummarizeLogBy(by)) = 1
                /\ \A i \in SummarizeLogBy(by) :
                      processing_log[i].status =
                          (IF summ_ret[p].value > 0 THEN "success" ELSE "failure")

\* C18: every call of the external model that returned a response, for a
\* summary or for a topic, has had its token counts added by add_usage: the
\* tokens a caller's CostTracker added are the tokens its responses reported.
C18_EveryResponseCounted ==
    \A p \in Procs : costs[p] = reported[p]

\* a letter's code point with its case folded
fold(c) == IF c >= 97 /\ c <= 122 THEN c - 32 ELSE c
\* label a comes before label b in the alphabet
AlphabeticallyBefore(a, b) ==
    seq_less([i \in DOMAIN ord(a) |-> fold(ord(a)[i])], [i \in DOMAIN ord(b) |-> fold(ord(b)[i])])

\* C20: _group_by_topic yields one group per topic of the list, the groups in
\* ascending alphabetical order of label except that 'General Retail', when
\* present, is the last one.
C20_GroupsAlphabeticalCatchAllLast ==
    fn_pc = "ret" =>
        /\ {fn_ret[i][1] : i \in DOMAIN fn_ret} = {fn_arg[i].topic : i \in DOMAIN fn_arg}
        /\ \A i, j \in DOMAIN fn_ret : i < j =>
              /\ fn_ret[i][1] # "General Retail"
              /\ fn_ret[j][1] # "General Retail" =>
                    AlphabeticallyBefore(fn_ret[i][1], fn_ret[j][1])
        /\ \A i \in DOMAIN fn_ret :
              fn_ret[i][2] = SelectSeq(fn_arg, LAMBDA x : x.topic = fn_ret[i][1])

\* three topics the catch-all among them, met in another order: the catch-all
\* group is last and the other two are alphabetical
C20_Witness ==
    /\ fn_pc = "ret"
    /\ Len(fn_arg) = 3
    /\ fn_arg[1].topic = "General Retail" /\ fn_arg[2].topic = "Home & Garden"
    /\ fn_arg[3].topic = "Automotive"
    /\ Len(fn_ret) = 3
    /\ fn_ret[1][1] = "Automotive" /\ fn_ret[2][1] = "Home & Garden"
    /\ fn_ret[3][1] = "General Retail"

\* the email RunLog rows of the digest call
EmailLog == {i \in DOMAIN processing_log : processing_log[i].operation_type = "email"}
\* no stored Summary was created within the 24 hours before the call
NoRecentSummary ==
    \A k \in DOMAIN summaries : summaries[k].created_at < clock - 24 * 3600

\* C19 as stated: with no Summary of the past 24 hours a finished
\* send_daily_digest has called the mail sender not at all, has appended one
\* 'skipped' row and has returned True.
C19_SkipLogsOneRow ==
    (pcD = "done" /\ NoRecentSummary) =>
        /\ mail_log = <<>>
        /\ digest_ret = "True"
        /\ Count(EmailLog) = 1
        /\ \A i \in EmailLog : processing_log[i].status = "skipped"

\* C19, amended: with no Summary of the past 24 hours send_daily_digest never
\* calls the mail sender and returns True; it appends one 'skipped' row with
\* 0 items, except that it appends no row when the write of that row fails.
C19_SkipNoMailReturnsTrue ==
    NoRecentSummary =>
        /\ mail_log = <<>>
        /\ pcD \in {"idle", "log_skipped", "done"}
        /\ pcD = "done" =>
              /\ digest_ret = "True"
              /\ Count(EmailLog) <= 1
              /\ Count(EmailLog) = 0 => faults > 0
              /\ \A i \in EmailLog :
                    /\ processing_log[i].status = "skipped"
                    /\ processing_log[i].items_processed = 0

\* a store whose only summaries are older than 24 hours: the call skipped,
\* logged it and returned True
C19_Witness ==
    /\ pcD = "done" /\ NoRecentSummary
    /\ Len(summaries) >= 2
    /\ mail_log = <<>> /\ digest_ret = "True"
    /\ \E i \in EmailLog : processing_log[i].status = "skipped"

\* C26: wait_if_needed returns only when can_request just answered true for
\* the host, and while it runs no request is recorded: the host's timestamp
\* log only loses entries that are 60 s old or older, every other host's log
\* is left alone, and the record of add_request calls does not change.
C26_WaitStep ==
    pcF \in {"gate", "poll_sleep"} =>
        /\ issued' = issued
        /\ \A d \in Domains \ {FeedDomain} : requests'[d] = requests[d]
        /\ requests'[FeedDomain] =
              SelectSeq(requests[FeedDomain], LAMBDA t : t > clock - 60)
           \/ requests'[FeedDomain] = requests[FeedDomain]
        /\ Len(http_log') = Len(http_log)

C26_WaitReturned ==
    pcF = "request" =>
        /\ rl_check.domain = FeedDomain /\ rl_check.result /\ rl_check.at = clock
        /\ requests[FeedDomain] = rl_check.after
        /\ Count(InWindow(issued[FeedDomain], clock)) < MAX_REQUESTS_PER_MINUTE
        /\ Len(requests[FeedDomain]) < MAX_REQUESTS_PER_MINUTE

C26_WaitNeverRecords == []C26_WaitReturned /\ [][C26_WaitStep]_vars

\* the gate was closed, wait_if_needed slept, a later check purged aged
\* entries and let the call through
C26_Witness ==
    /\ pcF = "request"
    /\ Len(rl_check.after) < Len(rl_check.before)
    /\ \E i \in DOMAIN sleep_log :
          sleep_log[i].kind = "poll" /\ sleep_log[i].after = Len(http_log)

\* C27: every HTTP request of _fetch_rss_feed, answered or failed, first or
\* retry, is issued right after wait_if_needed let the host through and is
\* recorded exactly once in the RateLimiter, under the host and the instant
\* of the request.
C27_RequestStep ==
    http_log' # http_log =>
        /\ pcF = "request"
        /\ rl_check.domain = FeedDomain /\ rl_check.result /\ rl_check.at = clock
        /\ Len(http_log') = Len(http_log) + 1
        /\ issued'[FeedDomain] = Append(issued[FeedDomain], clock)
        /\ requests'[FeedDomain] = Append(requests[FeedDomain], clock)

C27_RequestsRecorded ==
    /\ Len(issued[FeedDomain]) = Len(http_log)
    /\ \A i \in DOMAIN http_log : issued[FeedDomain][i] = http_log[i].at
    /\ \A d \in Domains \ {FeedDomain} : issued[d] = <<>>

C27_EveryAttemptCounted == []C27_RequestsRecorded /\ [][C27_RequestStep]_vars

\* a failed first attempt and its answered retry are both on record
C27_Witness ==
    /\ Len(http_log) = 2
    /\ http_log[1].outcome = "transient" /\ http_log[2].outcome = "ok"
    /\ http_log[2].attempt = 1
    /\ Len(issued[FeedDomain]) = 2

\* the Summary rows a run has committed
CommittedBy(by) == {i \in DOMAIN summaries : summaries[i].by = by}

\* C30: the count summarize_new_headlines returns is the number of Summary
\* rows the invocation committed, and a processed headline is counted (its
\* iteration reported success) exactly when its Summary is committed.
C30_CountIsCommitted ==
    \A p \in Procs :
        /\ \A n \in DOMAIN processed[p] :
              (processed[p][n].outcome = "saved") <=>
                 (\E i \in CommittedBy(<<p, run_no[p]>>) :
                      summaries[i].headline_id = processed[p][n].id)
        /\ summarized_count[p] = Count(CommittedBy(<<p, run_no[p]>>))
        /\ (pcM[p] = "done" /\ run_no[p] > 0) =>
              /\ summ_ret[p].run = run_no[p]
              /\ summ_ret[p].value = Count(CommittedBy(<<p, run_no[p]>>))

\* a run of two headlines committed one Summary, lost the other to a failed
\* save, and returned 1
C30_Witness ==
    \E p \in Procs :
        /\ pcM[p] = "done" /\ Len(processed[p]) = 2
        /\ processed[p][1].outcome = "save_raised" /\ processed[p][2].outcome = "saved"
        /\ summ_ret[p].value = 1
        /\ Count(CommittedBy(<<p, run_no[p]>>)) = 1

\* the rows of the log a job invocation wrote: its own, by status, and those
\* of its body
JobRows(j, statuses) ==
    {i \in DOMAIN processing_log :
        processing_log[i].operation_type = j /\ processing_log[i].status \in statuses}
Terminal == {"completed", "failed", "error"}
BodyRows(j) ==
    {i \in DOMAIN processing_log :
        processing_log[i].operation_type \notin Jobs /\ processing_log[i].by[1] = JobCaller(j)}
CommittedCalls(j, statuses) ==
    {k \in DOMAIN job_calls[j] : job_calls[j][k].status \in statuses /\ job_calls[j][k].committed}

\* C22 as stated: an invocation that returned has written one 'started' row
\* ahead of every row of its body, and one terminal row after them.
C22_StartedAndOneTerminal ==
    \A j \in Jobs :
        pcJ[j] = "returned" =>
            /\ Count(JobRows(j, {"started"})) = 1
            /\ Count(JobRows(j, Terminal)) = 1
            /\ \A s \in JobRows(j, {"started"}) : \A b \in BodyRows(j) \cup JobRows(j, Terminal) : s < b

\* C22: an invocation calls log_job_execution with 'started' before its body
\* runs and once more, with a terminal status, after it; each call appends its
\* row unless its write fails; a 'started' row precedes every row of the
\* invocation's body and its terminal row, which follows every row of the body.
C22_StartedThenOneTerminal ==
    \A j \in Jobs :
        /\ Len(job_calls[j]) = CASE pcJ[j] = "idle" -> 0 [] pcJ[j] = "returned" -> 2 [] OTHER -> 1
        /\ Len(job_calls[j]) >= 1 => job_calls[j][1].status = "started"
        /\ Len(job_calls[j]) = 2 => job_calls[j][2].status \in Terminal
        /\ Count(JobRows(j, {"started"})) = Count(CommittedCalls(j, {"started"}))
        /\ \A t \in Terminal : Count(JobRows(j, {t})) = Count(CommittedCalls(j, {t}))
        /\ pcJ[j] = "idle" => BodyRows(j) = {}
        /\ \A s \in JobRows(j, {"started"}) : \A b \in BodyRows(j) \cup JobRows(j, Terminal) : s < b
        /\ \A b \in BodyRows(j) : \A t \in JobRows(j, Terminal) : b < t

\* both invocations wrote all their rows and overlapped: the scraping job
\* started and wrote body rows between the two rows of the digest job
C22_Witness ==
    /\ \A j \in Jobs : pcJ[j] = "returned" /\ Count(CommittedCalls(j, {"started"} \cup Terminal)) = 2
    /\ \E s \in JobRows(DigestJob, {"started"}) : \E t \in JobRows(DigestJob, Terminal) :
          /\ \E i \in JobRows(ScrapeJob, {"started"}) : s < i /\ i < t
          /\ \E b \in BodyRows(ScrapeJob) : s < b /\ b < t
    /\ BodyRows(DigestJob) # {}

JobPositions == {"idle", "body", "summarize", "log_completed", "log_failed", "log_error", "returned"}

\* C23 as stated: a job whose body raised has, once it returned, an 'error'
\* row with the text of the exception.
C23_BodyErrorLeavesErrorRow ==
    \A j \in Jobs :
        (pcJ[j] = "returned" /\ job_err[j] # None) =>
            \E i \in JobRows(j, {"error"}) : processing_log[i].message = job_err[j]

\* C23: the job function always returns: an exception of its body is caught
\* and handed to log_job_execution with status 'error' and its text, which
\* appends that row unless the write fails; a failed write is swallowed; and
\* until both jobs have returned some step is possible.
C23_NoExceptionLeavesJob ==
    /\ \A j \in Jobs :
        /\ pcJ[j] \in JobPositions
        /\ job_err[j] # None => pcJ[j] \in {"log_error", "returned"}
        /\ pcJ[j] = "log_error" => job_err[j] # None
        /\ (pcJ[j] = "returned" /\ job_err[j] # None) =>
              /\ job_calls[j][2].status = "error"
              /\ JobRows(j, {"completed", "failed"}) = {}
              /\ IF job_calls[j][2].committed
                 THEN \E i \in JobRows(j, {"error"}) : processing_log[i].message = job_err[j]
                 ELSE JobRows(j, {"error"}) = {}
        /\ (pcJ[j] = "returned" /\ job_err[j] = None) => job_calls[j][2].status # "error"
    /\ (pcS[1] = "raised" /\ pcJ[ScrapeJob] = "returned") => job_err[ScrapeJob] = SqliteError
    /\ (\E j \in Jobs : pcJ[j] # "returned") => ENABLED NextJobs

\* both bodies raised and both 'error' rows are in the log, with the texts
C23_Witness ==
    /\ pcS[1] = "raised"
    /\ \A j \in Jobs :
          /\ pcJ[j] = "returned" /\ job_err[j] # None
          /\ \E i \in JobRows(j, {"error"}) : processing_log[i].message = job_err[j]

\* C24: the terminal status of a job whose body raised nothing is 'failed'
\* when the body reported a failure (send_daily_digest returned False; the
\* job's _save_articles logged a 'failure' row) and 'completed' otherwise.
BodyReportedFailure(j) ==
    IF j = DigestJob THEN digest_ret = "False"
    ELSE \E i \in BodyRows(j) :
            processing_log[i].operation_type = "scrape" /\ processing_log[i].status = "failure"

C24_TerminalFollowsSignal ==
    \A j \in Jobs :
        (pcJ[j] = "returned" /\ job_err[j] = None) =>
            job_calls[j][2].status = IF BodyReportedFailure(j) THEN "failed" ELSE "completed"

\* C25: every step leaves the committed processing_log as it is or appends
\* rows at its end.
C25_LogStep ==
    /\ Len(processing_log') >= Len(processing_log)
    /\ SubSeq(processing_log', 1, Len(processing_log)) = processing_log

C25_RunLogAppendOnly == [][C25_LogStep]_vars

\* ingest, summarize, digest and both jobs have all appended rows, after a
\* rollback of the ingest
C25_Witness ==
    /\ \A j \in Jobs : JobRows(j, {"started"}) # {} /\ JobRows(j, Terminal) # {}
    /\ \A op \in {"scrape", "summarize", "email"} :
          \E i \in DOMAIN processing_log : processing_log[i].operation_type = op
    /\ \E i \in DOMAIN processing_log :
          processing_log[i].operation_type = "scrape" /\ processing_log[i].status = "failure"

\* C28: with an API token configured, a refresh request whose Authorization
\* header is absent or is not exactly 'Bearer <token>' is answered 401 and
\* runs neither ingest nor summarize (headlines, summaries, processing_log
\* and the cost ledger stay as they were); with no token configured every
\* request goes on to the pipeline.
TokenConfigured == API_TOKEN.present /\ Len(API_TOKEN.text) > 0
RightHeader == request.Authorization.present
               /\ request.Authorization.text = Bearer(API_TOKEN.text)
RefreshRanNothing ==
    /\ call_no[2] = 0 /\ run_no[2] = 0
    /\ summaries = <<>> /\ processing_log = <<>>
    /\ \A i \in DOMAIN headlines : headlines[i].by = <<0, 0>>
    /\ tx = EmptyTx /\ db_lock = 0
    /\ costs[2] = NoTokens

C28_Checked ==
    /\ (request.received /\ pcR # "auth" /\ TokenConfigured /\ ~RightHeader) =>
            pcR = "done" /\ response.status = 401 /\ RefreshRanNothing
    /\ response.status = 401 => TokenConfigured /\ ~RightHeader
    /\ (request.received /\ pcR # "auth" /\ (~TokenConfigured \/ RightHeader)) =>
            pcR \in {"scrape", "summarize", "done"} /\ response.status \in {0, 200, 500}
    /\ pcR \in {"idle", "auth"} => RefreshRanNothing /\ response = Pending

C28_CheckStep == pcR \in {"idle", "auth"} => UNCHANGED <<dbVars, saveVars, summVars>>

RECURSIVE read_groups(_, _, _, _)
read_groups(body, heading, entry, acc) ==
    IF body = <<>> THEN acc
    ELSE IF Head(body).kind = heading
    THEN read_groups(Tail(body), heading, entry,
            Append(acc, [label |-> Head(body).label, n |-> Head(body).n, links |-> <<>>]))
    ELSE IF Head(body).kind = entry /\ acc # <<>>
    THEN read_groups(Tail(body), heading, entry,
            [acc EXCEPT ![Len(acc)].links = Append(@, Head(body).link)])
    ELSE read_groups(Tail(body), heading, entry, acc)

Stated(body, kind) == SelectSeq(body, LAMBDA l : l.kind = kind)

\* C21: the plain-text and the HTML body of one digest show the same groups
\* in the same order (the text body with the label in upper case), under
\* each group the same entries in the same order, and state the same total
\* and per-group counts, all those of the grouping they were built from.
C21_SameGroupsBothBodies ==
    fn_pc = "ret" =>
        LET T == read_groups(fn_ret.body_text, "topic", "bullet", <<>>)
            H == read_groups(fn_ret.body_html, "<h2>", "<p>", <<>>)
            G == fn_ret.grouped
        IN  /\ Len(T) = Len(G) /\ Len(H) = Len(G)
            /\ \A i \in DOMAIN G :
                  /\ H[i].label = ord(G[i][1])
                  /\ T[i].label = upper(H[i].label)
                  /\ T[i].n = H[i].n /\ H[i].n = Len(G[i][2])
                  /\ T[i].links = H[i].links
                  /\ H[i].links = [k \in DOMAIN G[i][2] |-> G[i][2][k].link]
            /\ read_groups(fn_ret.body_text, "topic", "Read more", <<>>)
                  = read_groups(fn_ret.body_text, "topic", "bullet", <<>>)
            /\ read_groups(fn_ret.body_html, "<h2>", "<a href>", <<>>)
                  = read_groups(fn_ret.body_html, "<h2>", "<p>", <<>>)
            /\ Stated(fn_ret.body_text, "includes") = Stated(fn_ret.body_html, "includes")
            /\ Stated(fn_ret.body_text, "categories") = Stated(fn_ret.body_html, "categories")
            /\ Stated(fn_ret.body_text, "includes")[1].n = Len(fn_arg)
            /\ Stated(fn_ret.body_text, "categories")[1].n = Len(G)

\* three summaries in two groups, two of them in the first
C21_Witness ==
    /\ fn_pc = "ret"
    /\ Len(fn_ret.grouped) = 2
    /\ Len(fn_ret.grouped[1][2]) = 2
    /\ Len(read_groups(fn_ret.body_html, "<h2>", "<p>", <<>>)[1].links) = 2

\* C29: on an empty store with the single keyword 'rollback', when the feed
\* answers with two entries of one link, both published inside the window:
\* after scrape_news the store holds one headline; after
\* summarize_new_headlines, the model having answered, one summary; and the
\* digest then built has one topic group with one entry.
TwoEntriesOneLink ==
    /\ keywords = <<"rollback">>
    /\ http_log # <<>>
    /\ http_log[Len(http_log)].outcome = "ok"
    /\ Len(http_log[Len(http_log)].feed) = 2
    /\ http_log[Len(http_log)].feed[1].link = http_log[Len(http_log)].feed[2].link
    /\ http_log[Len(http_log)].feed[1].link # ""
    /\ \A i \in 1..2 : /\ http_log[Len(http_log)].feed[i].published.readable
                       /\ http_log[Len(http_log)].feed[i].published.value
                              >= clock - hours_back(1) * SecondsPerHour

ModelAnswered == \A k \in DOMAIN processed[1] : processed[1][k].generated

C29_EndToEnd ==
    TwoEntriesOneLink =>
        /\ ingested =>
              /\ Len(headlines) = 1
              /\ headlines[1].link = http_log[Len(http_log)].feed[1].link
        /\ (summarized /\ ModelAnswered) =>
              /\ Len(summaries) = 1
              /\ summaries[1].headline_id = 1
        /\ (pcD # "idle" /\ ModelAnswered) =>
              /\ Len(recent) = 1
              /\ Len(group_by_topic(recent)) = 1
              /\ Len(group_by_topic(recent)[1][2]) = 1
              /\ group_by_topic(recent)[1][2][1].link = headlines[1].link
        /\ \A i \in DOMAIN mail_log :
              ModelAnswered => Len(mail_log[i].groups) = 1 /\ Len(mail_log[i].groups[1][2]) = 1

\* the whole scenario ran, the fetch having succeeded on its second attempt,
\* and the digest was handed to the mail sender
C29_Witness ==
    /\ TwoEntriesOneLink /\ ModelAnswered
    /\ Len(http_log) = 2
    /\ pcD = "done"
    /\ Len(headlines) = 1 /\ Len(summaries) = 1
    /\ Len(mail_log) = 1 /\ Len(mail_log[1].groups) = 1

\* C32: at each feed request of one scrape_news call, the requests recorded
\* for the host with timestamps in the trailing 60 seconds, the new one
\* included, number at most max_requests.
C32_RecordedWithinLimit ==
    \A i \in DOMAIN http_log :
        /\ issued[FeedDomain][i] = http_log[i].at
        /\ Count({j \in 1..i : issued[FeedDomain][j] > http_log[i].at - WindowSeconds})
              <= MAX_REQUESTS_PER_MINUTE

\* the limit was met and waited out: a request issued after a poll sleep
\* stands with max_requests recorded requests in its trailing window
C32_Witness ==
    \E i \in DOMAIN http_log :
        /\ \E z \in DOMAIN sleep_log : sleep_log[z].kind = "poll" /\ sleep_log[z].after = i - 1
        /\ Count({j \in 1..i : issued[FeedDomain][j] > http_log[i].at - WindowSeconds})
              = MAX_REQUESTS_PER_MINUTE

\* C31: at every feed request of the process, the requests issued to the
\* host within the trailing 60 seconds, the new one included, number at most
\* max_requests.
C31_ProcessWideLimit ==
    \A i \in DOMAIN issued[FeedDomain] :
        Count({j \in 1..i : issued[FeedDomain][j] > issued[FeedDomain][i] - WindowSeconds})
            <= MAX_REQUESTS_PER_MINUTE

\* C36: a call of wait_if_needed returns: from each evaluation of its check
\* the scraper comes to issue its request, the blocking entries having aged
\* past 60 seconds and been purged.
C36_WaitReturns ==
    \A p \in Procs : (pcL[p] \in {"gate", "poll_sleep"}) ~> (pcL[p] = "request")

\* a scraper was held back, slept until its two requests were 60 seconds
\* old, and went on to its next request
C36_Witness ==
    \E p \in Procs :
        /\ pcL[p] = "request"
        /\ clock >= WindowSeconds
        /\ limiters[p][FeedDomain] = <<>>
        /\ Len(issued[FeedDomain]) >= MAX_REQUESTS_PER_MINUTE

\* what the keyword loop collected: the parsed entries of the successful
\* responses, in the order of the requests
RECURSIVE collected(_)
collected(log) ==
    IF log = <<>> THEN <<>>
    ELSE collected(SubSeq(log, 1, Len(log) - 1))
            \o (IF log[Len(log)].outcome = "ok"
                THEN SelectSeq([i \in DOMAIN log[Len(log)].feed |->
                        Entry(log[Len(log)].feed[i].link,
                              IF log[Len(log)].feed[i].published.readable
                              THEN log[Len(log)].feed[i].published.value
                              ELSE log[Len(log)].at,
                              log[Len(log)].feed[i].keyword)], LAMBDA e : e.link # "")
                ELSE <<>>)

\* the entries that are the first of their link in the concatenation and
\* whose own date is inside the window
KeptEntries ==
    {i \in FirstOccurrences(all_articles) :
        all_articles[i].published >= clock - hours_back(1) * SecondsPerHour}

\* C37: scrape_news hands on exactly the entries that are the first
\* occurrence of their link in the concatenation of all keywords' entries,
\* in keyword order, and whose own publish date is inside the window, in
\* that order; a link whose first occurrence is out of the window is dropped.
C37_DedupThenFilter ==
    pcF \in {"save", "returned", "raised"} =>
        /\ all_articles = collected(http_log)
        /\ \A i \in 1..(Len(http_log) - 1) : http_log[i].kw <= http_log[i + 1].kw
        /\ Len(articles[1]) = Count(KeptEntries)
        /\ \A j \in DOMAIN articles[1] :
              \E i \in KeptEntries :
                 /\ articles[1][j] = all_articles[i]
                 /\ Count({k \in KeptEntries : k <= i}) = j

\* the first keyword brought a link with a date out of the window, the second
\* the same link with a date inside it: the link is not handed on
C37_Witness ==
    /\ pcF = "returned"
    /\ \E i, j \in DOMAIN all_articles :
          /\ i < j
          /\ all_articles[i].link = all_articles[j].link
          /\ all_articles[i].keyword # all_articles[j].keyword
          /\ i \in FirstOccurrences(all_articles)
          /\ all_articles[i].published < clock - hours_back(1) * SecondsPerHour
          /\ all_articles[j].published >= clock - hours_back(1) * SecondsPerHour
          /\ \A k \in DOMAIN articles[1] : articles[1][k].link # all_articles[i].link

\* C38: the value _save_articles returns is the number of headlines rows the
\* call left committed, whatever its outcome.
C38_ReturnCountsCommitted ==
    \A p \in Procs :
        save_ret[p].outcome = "returned" =>
            save_ret[p].value = Count(RowsBy(<<p, save_ret[p].call>>))

\* the sum of one token count over the per-day buckets of a ledger
RECURSIVE bucket_sum(_, _, _)
bucket_sum(dc, days, field) ==
    IF days = {} THEN 0
    ELSE LET d == CHOOSE x \in days : TRUE
         IN  dc[d][field] + bucket_sum(dc, days \ {d}, field)

\* the ledger's totals are the sums of its per-day buckets
totals_are_bucket_sums(c) ==
    /\ c.total_input_tokens = bucket_sum(c.daily_costs, DOMAIN c.daily_costs, "input_tokens")
    /\ c.total_output_tokens = bucket_sum(c.daily_costs, DOMAIN c.daily_costs, "output_tokens")

\* an add_usage call of caller p: its ledger changed and no Summarizer was built
add_usage_step(p) == tracker'[p] # tracker[p] /\ built' = built

C33_NoLostUpdate ==
    (write_errors = 0 /\ cost_file # NoFile) =>
        /\ cost_file.total_input_tokens = recorded.total_input_tokens
        /\ cost_file.total_output_tokens = recorded.total_output_tokens

\* C39: a headline whose summary-generation call returned a text has its
\* Summary produced and saved, whether or not add_usage could write the
\* ledger file.
C39_SummaryDespiteLedgerFailure ==
    \A p \in Procs : \A i \in DOMAIN processed[p] :
        processed[p][i].generated => processed[p][i].outcome = "saved"

\* the scheduler init_scheduler sets up: both jobs, started
TwoJobsRunning == [jobs |-> <<"daily_digest", "periodic_scraping">>, running |-> TRUE]

\* C40: whatever the number of init_scheduler calls and the threads making
\* them, at most one BackgroundScheduler is ever constructed; once a call
\* has been made and none is in progress, the global names that one
\* scheduler, started, with the jobs daily_digest and periodic_scraping and
\* no other; and a call that finds a scheduler leaves it as it is.
C40_OneSchedulerTwoJobs ==
    /\ [](Len(made) <= 1)
    /\ []((/\ \E t \in Threads : init_calls[t] > 0
           /\ \A t \in Threads : pcI[t] = "idle")
          => (Len(made) = 1 /\ scheduler = 1 /\ made[1] = TwoJobsRunning))
    /\ [][\A t \in Threads :
            (pcI[t] = "check" /\ scheduler # 0 /\ pcI'[t] # "check")
                => UNCHANGED <<scheduler, made>>]_vars

\* every thread has called init_scheduler, one of them twice, and all calls
\* have returned
C40_Witness ==
    /\ \A t \in Threads : init_calls[t] > 0 /\ pcI[t] = "idle"
    /\ \E t \in Threads : init_calls[t] = MaxInitCalls
    /\ made = <<TwoJobsRunning>>

\* every stored headline that is not a failing one has a Summary
AllGoodSummarized ==
    \A i \in DOMAIN headlines :
        ~Failing(headlines[i].link) => i \in Summarized(summaries)

\* C35: with the periodic job running summarize_new_headlines again and
\* again, every stored headline whose generation and persistence succeed
\* eventually has a Summary, whatever number of other headlines fail in
\* every run.
C35_GoodItemsEventuallySummarized == <>AllGoodSummarized

=============================================================================
